---- MODULE Spec2Model ----
(***************************************************************************)
(* Givegram front-end controller (frontend/js/app.js): session lifecycle   *)
(* (startup restore, login, logout, transparent re-authentication) and the *)
(* giveaway run (fetch comments, settings, pick winners, reveal, results). *)
(*                                                                         *)
(* The browser runs one event loop: every action below is one synchronous  *)
(* block of a handler, from an event or a settled await up to the next     *)
(* await that really suspends (a network call or a timer).                 *)
(***************************************************************************)
EXTENDS Integers, Sequences, FiniteSets, TLC

(* ------------------------------------------------------------------ *)
(* Bounds and value universes                                          *)
(* ------------------------------------------------------------------ *)

\* null / absent (state.sessionId === null, localStorage.getItem() === null)
Null == "null"

\* number of handleLogout calls that may wait for /logout at the same time
MaxLogouts == 2
\* longest winners array the backend returns
MaxWinners == 2
\* largest data-value among the option buttons the user clicks
MaxOption == 2
\* the resolution of Math.random(): it returns k / RandomSteps
RandomSteps == 10
\* the longest winners array of the message shuffle's specification
MaxRevealed == 11

\* the credentials the user may paste, the session ids the backend may issue
Cookies == {"c1", "c2"}
Handles == {"h1", "h2"}

COUNTDOWN_SECONDS == 5
WINNER_REVEAL_SECONDS == 3

COOKIE_STORAGE_KEY == "givegram_session_cookie"
SESSION_ID_STORAGE_KEY == "givegram_session_id"

\* the five screens, plus the loading indicator shown before the first navigateTo
screens == {"login", "pasteLink", "settings", "searching", "results"}
Loading == "loading"

(* ------------------------------------------------------------------ *)
(* API responses and apiPost                                           *)
(* ------------------------------------------------------------------ *)

\* what the transport can deliver for one request, besides a 2xx response:
\* an error status whose body has a "detail" or not ("" = none / not JSON),
\* or a rejected fetch()
Failures ==
  {[kind |-> "http", status |-> 401, detail |-> "detail"],
   [kind |-> "http", status |-> 401, detail |-> ""],
   [kind |-> "http", status |-> 500, detail |-> "detail"],
   [kind |-> "http", status |-> 500, detail |-> ""],
   [kind |-> "net", status |-> 0, detail |-> ""]}

OkResp == [kind |-> "ok", status |-> 200, detail |-> ""]

RequestFailed(status) == "Request failed (HTTP " \o ToString(status) \o ")"

\* mutant: apiPost ignores the body of an error response
apiPost_noDetail(r) ==
  IF r.kind = "ok"
    THEN [ok |-> TRUE, isApiError |-> FALSE, status |-> 200, message |-> ""]
  ELSE IF r.kind = "http"
    THEN [ok |-> FALSE, isApiError |-> TRUE, status |-> r.status,
          message |-> RequestFailed(r.status)]
  ELSE [ok |-> FALSE, isApiError |-> FALSE, status |-> 0,
        message |-> "Failed to fetch"]

\* apiPost: the settled promise for a response r.  ok: resolves with the body.
\* Otherwise it throws: an ApiError carrying status and message for a non-OK
\* response, the fetch() TypeError for a network failure.
apiPost(r) ==
  IF r.kind = "ok"
    THEN [ok |-> TRUE, isApiError |-> FALSE, status |-> 200, message |-> ""]
  ELSE IF r.kind = "http"
    THEN [ok |-> FALSE, isApiError |-> TRUE, status |-> r.status,
          message |-> IF r.detail # "" THEN r.detail ELSE RequestFailed(r.status)]
  ELSE [ok |-> FALSE, isApiError |-> FALSE, status |-> 0,
        message |-> "Failed to fetch"]

\* err instanceof ApiError && err.status === 401
Is401(e) == e.isApiError /\ e.status = 401

LoginResponses ==
  {[kind |-> "ok", status |-> 200, detail |-> "", session_id |-> h] : h \in Handles}
    \cup {[kind |-> f.kind, status |-> f.status, detail |-> f.detail,
           session_id |-> Null] : f \in Failures}

PlainResponses == {OkResp} \cup Failures

(* ------------------------------------------------------------------ *)
(* State                                                               *)
(* ------------------------------------------------------------------ *)

VARIABLES
  sessionId,      \* state.sessionId
  users,          \* state.users
  totalComments,  \* state.totalComments
  numWinners,     \* state.numWinners
  minComments,    \* state.minComments
  winners,        \* state.winners
  winnersList,    \* the handles listed in els.winnersList
  localStorage,   \* the two persisted keys
  screen,         \* the section carrying screen--active (or Loading)
  loginError,     \* els.loginError text ("" = hidden)
  urlError,       \* els.urlError text
  settingsError,  \* els.settingsError text
  btnDisabled,    \* .disabled of loginBtn / fetchBtn / runGiveawayBtn
  initH,          \* the running init() call: position, locals, calls issued
  loginH,         \* the running handleLogin() call
  fetchH,         \* the running handleFetchComments() call
  runH,           \* the running handleRunGiveaway() call and its animation
  logoutH,        \* number of handleLogout() calls awaiting /logout
  last            \* the block that ran last: its outcome and the session id
                  \* its response carried

appState == <<users, totalComments, numWinners, minComments, winners, winnersList>>
identity == <<sessionId, localStorage>>
dom == <<screen, loginError, urlError, settingsError, btnDisabled>>
handlers == <<initH, loginH, fetchH, runH, logoutH>>
vars == <<sessionId, users, totalComments, numWinners, minComments, winners,
          winnersList, localStorage, screen, loginError, urlError, settingsError,
          btnDisabled, initH, loginH, fetchH, runH, logoutH, last>>

(* ------------------------------------------------------------------ *)
(* Cookie persistence (localStorage)                                   *)
(* ------------------------------------------------------------------ *)

getSavedCookie(ls) == ls[COOKIE_STORAGE_KEY]
getSavedSessionId(ls) == ls[SESSION_ID_STORAGE_KEY]
saveCookie(ls, cookie) == [ls EXCEPT ![COOKIE_STORAGE_KEY] = cookie]
saveSessionId(ls, sid) == [ls EXCEPT ![SESSION_ID_STORAGE_KEY] = sid]
clearSavedCookie(ls) == [ls EXCEPT ![COOKIE_STORAGE_KEY] = Null]
clearSavedSessionId(ls) == [ls EXCEPT ![SESSION_ID_STORAGE_KEY] = Null]

(* ------------------------------------------------------------------ *)
(* Helpers                                                             *)
(* ------------------------------------------------------------------ *)

\* mutant: setButtonLoading toggles the label only, never .disabled
setButtonLoading_labelOnly(b, btn, loading) == b

\* setButtonLoading(btn, loading)
setButtonLoading(b, btn, loading) == [b EXCEPT ![btn] = loading]

\* String.prototype.trim on an input modelled as a sequence of tokens,
\* " " being white space
RECURSIVE TrimLeft(_)
TrimLeft(s) == IF s # <<>> /\ Head(s) = " " THEN TrimLeft(Tail(s)) ELSE s
RECURSIVE TrimRight(_)
TrimRight(s) ==
  IF s # <<>> /\ s[Len(s)] = " " THEN TrimRight(SubSeq(s, 1, Len(s) - 1)) ELSE s
trim(s) == TrimRight(TrimLeft(s))

\* what the user can have typed into the cookie field: nothing, blanks, or a
\* cookie with or without surrounding blanks
CookieInputs ==
  {<<>>, <<" ">>} \cup {<<c>> : c \in Cookies} \cup {<<" ", c>> : c \in Cookies}
    \cup {<<c, " ">> : c \in Cookies}

\* the value of a trimmed one-cookie input ("" when nothing is left)
CookieText(s) == IF s = <<>> THEN "" ELSE s[1]

\* the kind of a response as the server sent it
RespKind(r) ==
  IF r.kind = "ok" THEN "ok"
  ELSE IF r.kind = "http" /\ r.status = 401 THEN "unauthorized"
  ELSE "other"

\* what `last` keeps of a response r carrying session id sid; no response
Resp(r, sid) ==
  [kind |-> RespKind(r), sid |-> sid, status |-> r.status, detail |-> r.detail]
NoResp == [kind |-> "none", sid |-> Null, status |-> 0, detail |-> ""]

\* the value of `last` after block op ended with outcome out on response resp
Ev(op, out, resp) ==
  [op |-> op, out |-> out, resp |-> resp.kind, sid |-> resp.sid,
   status |-> resp.status, detail |-> resp.detail]

(* ------------------------------------------------------------------ *)
(* Initial state: a page load                                          *)
(* ------------------------------------------------------------------ *)

\* init() has not run its first block yet
InitH0 ==
  [pc |-> "start", savedSessionId |-> Null, savedCookie |-> Null,
   validateCalls |-> 0, loginCalls |-> 0]

\* init() has returned: its locals are gone, the calls it made are remembered
initReturn(h) == [h EXCEPT !.pc = "done", !.savedSessionId = Null, !.savedCookie = Null]

\* no handleLogin() call is in flight
LoginH0 == [pc |-> "idle", sessionCookie |-> Null, loginCalls |-> 0]

\* no handleFetchComments() call is in flight
FetchH0 ==
  [pc |-> "idle", url |-> Null, sentSessionId |-> Null, sentCookie |-> Null,
   fetchCalls |-> 0, loginCalls |-> 0]

\* no handleRunGiveaway() call is in flight
\* (pool is congratsPool, the shuffled messages of the running animation;
\* progress is the numerator of the arc's progress fraction, over
\* totalSteps = COUNTDOWN_SECONDS; ticks counts the interval callbacks of the
\* current countdown; phases, revealed and messages list what the animation
\* has shown)
RunH0 ==
  [pc |-> "idle", sentUsers |-> <<>>, sentNumWinners |-> 0,
   sentMinComments |-> 0, winners |-> <<>>, i |-> 0,
   remaining |-> 0, progress |-> 0, ticks |-> 0, phases |-> <<>>,
   revealed |-> <<>>, pool |-> <<>>, messages |-> <<>>]

Buttons == {"loginBtn", "fetchBtn", "runGiveawayBtn"}

\* the module-level state of a freshly loaded page (lines 101-114) and the
\* markup before any navigateTo: loading indicator, no error text, buttons enabled
FreshPage ==
  [sessionId |-> Null, users |-> <<>>, totalComments |-> 0, numWinners |-> 1,
   minComments |-> 1, winners |-> <<>>, winnersList |-> <<>>, screen |-> Loading,
   loginError |-> "", urlError |-> "", settingsError |-> "",
   btnDisabled |-> [b \in Buttons |-> FALSE]]

\* what localStorage can hold
Storages ==
  {[k \in {COOKIE_STORAGE_KEY, SESSION_ID_STORAGE_KEY} |->
      IF k = COOKIE_STORAGE_KEY THEN c ELSE s] :
        c \in Cookies \cup {Null}, s \in Handles \cup {Null}}

\* when the page is first opened localStorage holds nothing, a credential
\* alone, or a credential with a session id (a session id is only ever
\* written together with or after a credential)
Init ==
  /\ sessionId = FreshPage.sessionId
  /\ users = FreshPage.users
  /\ totalComments = FreshPage.totalComments
  /\ numWinners = FreshPage.numWinners
  /\ minComments = FreshPage.minComments
  /\ winners = FreshPage.winners
  /\ winnersList = FreshPage.winnersList
  /\ screen = FreshPage.screen
  /\ loginError = FreshPage.loginError
  /\ urlError = FreshPage.urlError
  /\ settingsError = FreshPage.settingsError
  /\ btnDisabled = FreshPage.btnDisabled
  /\ initH = InitH0
  /\ loginH = LoginH0
  /\ fetchH = FetchH0
  /\ runH = RunH0
  /\ logoutH = 0
  /\ last = Ev("load", "", NoResp)
  /\ localStorage \in
       {ls \in Storages : getSavedSessionId(ls) # Null => getSavedCookie(ls) # Null}

\* the user reloads the page: the script starts over (init() at the bottom of
\* the file), every pending callback is gone, localStorage survives
Reload ==
  /\ sessionId' = FreshPage.sessionId
  /\ users' = FreshPage.users
  /\ totalComments' = FreshPage.totalComments
  /\ numWinners' = FreshPage.numWinners
  /\ minComments' = FreshPage.minComments
  /\ winners' = FreshPage.winners
  /\ winnersList' = FreshPage.winnersList
  /\ screen' = FreshPage.screen
  /\ loginError' = FreshPage.loginError
  /\ urlError' = FreshPage.urlError
  /\ settingsError' = FreshPage.settingsError
  /\ btnDisabled' = FreshPage.btnDisabled
  /\ initH' = InitH0
  /\ loginH' = LoginH0
  /\ fetchH' = FetchH0
  /\ runH' = RunH0
  /\ logoutH' = 0
  /\ last' = Ev("load", "", NoResp)
  /\ UNCHANGED localStorage

(* ------------------------------------------------------------------ *)
(* init(): two-tier session restore                                    *)
(* ------------------------------------------------------------------ *)

\* mutant: tier 2 is tried whatever was read, also without a cookie
initTier2_always(ls, h, op, resp) ==
  /\ initH' = [h EXCEPT !.pc = "login", !.loginCalls = @ + 1]
  /\ localStorage' = ls
  /\ last' = Ev(op, "login", resp)
  /\ UNCHANGED <<sessionId, screen, loginError>>

\* tier 2 / tier 3, entered with the storage ls left by tier 1: re-login with
\* the cookie read at the top of init(), or show the login screen
initTier2(ls, h, op, resp) ==
  IF h.savedCookie # Null
    THEN /\ initH' = [h EXCEPT !.pc = "login", !.loginCalls = @ + 1]
         /\ localStorage' = ls
         /\ last' = Ev(op, "login", resp)
         /\ UNCHANGED <<sessionId, screen, loginError>>
    ELSE /\ initH' = initReturn(h)
         /\ localStorage' = ls
         /\ screen' = "login"
         /\ last' = Ev(op, "nocredential", resp)
         /\ UNCHANGED <<sessionId, loginError>>

\* init() up to its first await: read both persisted values, then tier 1
\* (validate the stored session id) if there is one
initStart ==
  /\ initH.pc = "start"
  /\ LET h == [initH EXCEPT !.savedSessionId = getSavedSessionId(localStorage),
                            !.savedCookie = getSavedCookie(localStorage)]
     IN IF h.savedSessionId # Null
          THEN /\ initH' = [h EXCEPT !.pc = "validate", !.validateCalls = @ + 1]
               /\ last' = Ev("initStart", "validate", NoResp)
               /\ UNCHANGED <<sessionId, localStorage, screen, loginError>>
          ELSE initTier2(localStorage, h, "initStart", NoResp)
  /\ UNCHANGED <<appState, urlError, settingsError, btnDisabled,
                 loginH, fetchH, runH, logoutH>>

\* mutant: tier 1 succeeds but state.sessionId is never assigned
initAdopt_forgotten(h) == Null

\* tier 1 succeeded: the session id adopted as current
initAdopt(h) == h.savedSessionId

\* /validate-session settles
initValidateSettled(r) ==
  /\ initH.pc = "validate"
  /\ IF apiPost(r).ok
       THEN /\ sessionId' = initAdopt(initH)
            /\ screen' = "pasteLink"
            /\ initH' = initReturn(initH)
            /\ last' = Ev("initValidateSettled", "restored", Resp(r, Null))
            /\ UNCHANGED <<localStorage, loginError>>
       ELSE initTier2(clearSavedSessionId(localStorage), initH,
                      "initValidateSettled", Resp(r, Null))
  /\ UNCHANGED <<appState, urlError, settingsError, btnDisabled,
                 loginH, fetchH, runH, logoutH>>

\* mutant: tier 2 treats every failure as proof of a stale cookie
initLoginCatch_anyFailure(ls, e) == clearSavedSessionId(clearSavedCookie(ls))

\* the catch block of tier 2: what is left in storage after a failed /login
initLoginCatch(ls, e) ==
  IF Is401(e) THEN clearSavedSessionId(clearSavedCookie(ls)) ELSE ls

\* mutant: tier 2 adopts the new session id but does not persist it
initLoginPersist_notSaved(ls, sid) == ls

\* the try block of tier 2 after a successful /login: what is persisted
initLoginPersist(ls, sid) == saveSessionId(ls, sid)

\* tier-2 /login settles
initLoginSettled(r) ==
  /\ initH.pc = "login"
  /\ LET e == apiPost(r) IN
       IF e.ok
         THEN /\ sessionId' = r.session_id
              /\ localStorage' = initLoginPersist(localStorage, r.session_id)
              /\ screen' = "pasteLink"
              /\ last' = Ev("initLoginSettled", "restored", Resp(r, r.session_id))
              /\ UNCHANGED loginError
         ELSE /\ localStorage' = initLoginCatch(localStorage, e)
              /\ screen' = "login"
              /\ loginError' =
                   IF Is401(e)
                     THEN "Your saved session has expired. Please paste a new cookie."
                     ELSE loginError
              /\ last' = Ev("initLoginSettled", IF Is401(e) THEN "stale" ELSE "transient",
                            Resp(r, Null))
              /\ UNCHANGED sessionId
  /\ initH' = initReturn(initH)
  /\ UNCHANGED <<appState, urlError, settingsError, btnDisabled,
                 loginH, fetchH, runH, logoutH>>


(* ------------------------------------------------------------------ *)
(* Screen 0: login and logout                                          *)
(* ------------------------------------------------------------------ *)

\* handleLogin up to its await: validate the input, disable the button and
\* send /login with the trimmed cookie.  The form can be submitted while its
\* screen is shown and its submit button is enabled.
handleLogin(input) ==
  /\ screen = "login"
  /\ ~btnDisabled["loginBtn"]
  /\ LET sessionCookie == CookieText(trim(input)) IN
       IF sessionCookie = ""
         THEN /\ loginError' = "Please paste your Instagram session cookie."
              /\ last' = Ev("handleLogin", "validation", NoResp)
              /\ UNCHANGED <<btnDisabled, loginH>>
         ELSE /\ loginError' = ""
              /\ btnDisabled' = setButtonLoading(btnDisabled, "loginBtn", TRUE)
              /\ loginH' = [LoginH0 EXCEPT !.pc = "login",
                              !.sessionCookie = sessionCookie, !.loginCalls = 1]
              /\ last' = Ev("handleLogin", "sent", NoResp)
  /\ UNCHANGED <<identity, appState, screen, urlError, settingsError,
                 initH, fetchH, runH, logoutH>>

\* mutant: the session id is persisted, the credential is not
handleLoginPersist_sidOnly(ls, sessionCookie, sid) == saveSessionId(ls, sid)

\* the try block of handleLogin after a successful /login: what is persisted
handleLoginPersist(ls, sessionCookie, sid) ==
  saveSessionId(saveCookie(ls, sessionCookie), sid)

\* mutant: a 401 on the login form wipes what is persisted
handleLoginCatch_clearsOn401(ls, e) ==
  IF Is401(e) THEN clearSavedSessionId(clearSavedCookie(ls)) ELSE ls

\* the catch block of handleLogin: what is left in storage
handleLoginCatch(ls, e) == ls

\* /login settles for handleLogin
handleLoginSettled(r) ==
  /\ loginH.pc = "login"
  /\ LET e == apiPost(r) IN
       IF e.ok
         THEN /\ sessionId' = r.session_id
              /\ localStorage' =
                   handleLoginPersist(localStorage, loginH.sessionCookie, r.session_id)
              /\ screen' = "pasteLink"
              /\ last' = Ev("handleLoginSettled", "ok", Resp(r, r.session_id))
              /\ UNCHANGED loginError
         ELSE /\ loginError' = e.message
              /\ localStorage' = handleLoginCatch(localStorage, e)
              /\ last' = Ev("handleLoginSettled", "error", Resp(r, Null))
              /\ UNCHANGED <<sessionId, screen>>
  /\ loginH' = LoginH0
  /\ btnDisabled' = setButtonLoading(btnDisabled, "loginBtn", FALSE)
  /\ UNCHANGED <<appState, urlError, settingsError, initH, fetchH, runH, logoutH>>

\* the tail of handleLogout (lines 419-422): local cleanup
handleLogoutCleanup ==
  /\ sessionId' = Null
  /\ localStorage' = clearSavedSessionId(clearSavedCookie(localStorage))
  /\ screen' = "login"

\* the logout link is clicked: with a session, wait for /logout first;
\* without one, clean up at once
handleLogout ==
  /\ screen # Loading
  /\ IF sessionId # Null
       THEN /\ logoutH < MaxLogouts
            /\ logoutH' = logoutH + 1
            /\ last' = Ev("handleLogout", "sent", NoResp)
            /\ UNCHANGED <<identity, screen>>
       ELSE /\ handleLogoutCleanup
            /\ last' = Ev("handleLogout", "done", NoResp)
            /\ UNCHANGED logoutH
  /\ UNCHANGED <<appState, loginError, urlError, settingsError, btnDisabled,
                 initH, loginH, fetchH, runH>>

\* mutant: a failed /logout call aborts the logout (no catch around the await)
handleLogoutSettled_failureAborts(r) ==
  /\ logoutH > 0
  /\ logoutH' = logoutH - 1
  /\ IF apiPost(r).ok
       THEN handleLogoutCleanup
       ELSE UNCHANGED <<identity, screen>>
  /\ last' = Ev("handleLogoutSettled", "done", Resp(r, Null))
  /\ UNCHANGED <<appState, loginError, urlError, settingsError, btnDisabled,
                 initH, loginH, fetchH, runH>>

\* /logout settles, with any outcome
handleLogoutSettled(r) ==
  /\ logoutH > 0
  /\ logoutH' = logoutH - 1
  /\ handleLogoutCleanup
  /\ last' = Ev("handleLogoutSettled", "done", Resp(r, Null))
  /\ UNCHANGED <<appState, loginError, urlError, settingsError, btnDisabled,
                 initH, loginH, fetchH, runH>>

(* ------------------------------------------------------------------ *)
(* Session expiry and transparent re-authentication                    *)
(* ------------------------------------------------------------------ *)

\* mutant: tryReauthenticate treats every failure as proof of a stale cookie
tryReauthenticateCatch_anyFailure(ls, e) == clearSavedSessionId(clearSavedCookie(ls))

\* the catch block of tryReauthenticate: what is left in storage after a
\* failed /login
tryReauthenticateCatch(ls, e) ==
  IF Is401(e) THEN clearSavedSessionId(clearSavedCookie(ls)) ELSE ls

\* the try block of tryReauthenticate after a successful /login: what is
\* persisted
tryReauthenticatePersist(ls, sid) == saveSessionId(ls, sid)

\* the message handleSessionExpiry passes to redirectToLogin
expiryMessage(ls) ==
  IF getSavedCookie(ls) # Null
    THEN "Could not reconnect to Instagram. Please try again."
    ELSE "Your session cookie has expired. Please paste a new one."

\* redirectToLogin(message), run on the storage ls left by tryReauthenticate
redirectToLogin(ls, message) ==
  /\ sessionId' = Null
  /\ localStorage' = clearSavedSessionId(ls)
  /\ screen' = "login"
  /\ loginError' = message

\* mutant: every ApiError counts as an expired session
isSessionError_anyApiError(e) == e.isApiError

\* handleSessionExpiry's first test: is err a session error at all
isSessionError(e) == Is401(e)

(* ------------------------------------------------------------------ *)
(* Screen 1: paste link, fetch comments                                *)
(* ------------------------------------------------------------------ *)

\* the texts the user may paste into the link field, and their parts as the
\* pattern sees them
UrlTexts ==
  {"https://www.instagram.com/p/abc/", "http://instagram.com/reel/x-1",
   "not-a-url", "https://www.instagram.com/someone/"}

UrlParts(t) ==
  CASE t = "https://www.instagram.com/p/abc/" ->
         [scheme |-> "https", host |-> "www.instagram.com", kind |-> "p", code |-> "abc"]
    [] t = "http://instagram.com/reel/x-1" ->
         [scheme |-> "http", host |-> "instagram.com", kind |-> "reel", code |-> "x-1"]
    [] t = "https://www.instagram.com/someone/" ->
         [scheme |-> "https", host |-> "www.instagram.com", kind |-> "someone", code |-> ""]
    [] OTHER -> [scheme |-> "", host |-> "", kind |-> "", code |-> ""]

\* mutant: the pattern checks scheme and host, not the /p/, /reel/, /tv/ path
INSTAGRAM_URL_RE_hostOnly(t) ==
  LET u == UrlParts(t) IN
    /\ u.scheme \in {"http", "https"}
    /\ u.host \in {"instagram.com", "www.instagram.com"}

\* INSTAGRAM_URL_RE.test(url)
INSTAGRAM_URL_RE(t) ==
  LET u == UrlParts(t) IN
    /\ u.scheme \in {"http", "https"}
    /\ u.host \in {"instagram.com", "www.instagram.com"}
    /\ u.kind \in {"p", "reel", "tv"}
    /\ u.code # ""

UrlInputs ==
  {<<>>, <<" ">>} \cup {<<t>> : t \in UrlTexts}
    \cup {<<" ", "https://www.instagram.com/p/abc/">>}

UrlText(s) == IF s = <<>> THEN "" ELSE s[1]

\* the comment sets the backend may return: users with their comment counts
FetchData ==
  {[users |-> <<[username |-> "alice", comment_count |-> 2],
                [username |-> "bob", comment_count |-> 1]>>, total_comments |-> 3],
   [users |-> <<[username |-> "alice", comment_count |-> 1]>>, total_comments |-> 1]}

FetchResponses ==
  {[kind |-> "ok", status |-> 200, detail |-> "", users |-> d.users,
    total_comments |-> d.total_comments] : d \in FetchData}
    \cup {[kind |-> f.kind, status |-> f.status, detail |-> f.detail,
           users |-> <<>>, total_comments |-> 0] : f \in Failures}


\* handleFetchComments up to its await
handleFetchComments(input) ==
  /\ screen = "pasteLink"
  /\ ~btnDisabled["fetchBtn"]
  /\ LET url == UrlText(trim(input)) IN
       IF url = ""
         THEN /\ urlError' = "Please paste an Instagram link."
              /\ last' = Ev("handleFetchComments", "validation", NoResp)
              /\ UNCHANGED <<btnDisabled, fetchH>>
       ELSE IF ~INSTAGRAM_URL_RE(url)
         THEN /\ urlError' = "That doesn't look like a valid Instagram post URL."
              /\ last' = Ev("handleFetchComments", "validation", NoResp)
              /\ UNCHANGED <<btnDisabled, fetchH>>
         ELSE /\ urlError' = ""
              /\ btnDisabled' = setButtonLoading(btnDisabled, "fetchBtn", TRUE)
              /\ fetchH' = [FetchH0 EXCEPT !.pc = "fetch", !.url = url,
                              !.sentSessionId = sessionId, !.fetchCalls = 1]
              /\ last' = Ev("handleFetchComments", "sent", NoResp)
  /\ UNCHANGED <<identity, appState, screen, loginError, settingsError,
                 initH, loginH, runH, logoutH>>

\* a successful /fetch-comments response is stored (lines 465-467, 478-480)
storeComments(r) ==
  /\ users' = r.users
  /\ totalComments' = r.total_comments
  /\ screen' = "settings"

\* mutant: handleFetchComments ends without re-enabling its button
fetchFinally_leavesDisabled ==
  /\ fetchH' = FetchH0
  /\ UNCHANGED btnDisabled

\* the finally block of handleFetchComments: the handler is over
fetchFinally ==
  /\ fetchH' = FetchH0
  /\ btnDisabled' = setButtonLoading(btnDisabled, "fetchBtn", FALSE)

\* tryReauthenticate up to its await: the /login call with the saved cookie
tryReauthenticateSend(h, savedCookie) ==
  [h EXCEPT !.pc = "reauth", !.sentCookie = savedCookie, !.loginCalls = @ + 1]

\* mutant: the retry repeats the request body of the first call
retrySend_sameBody(h, sid) ==
  [h EXCEPT !.pc = "retry", !.fetchCalls = @ + 1]

\* mutant: "reauthenticated" is not followed by a retry
retrySend_none(h, sid) == [h EXCEPT !.pc = "idle"]

\* the retry of handleFetchComments: the same url, the current session id
retrySend(h, sid) ==
  [h EXCEPT !.pc = "retry", !.sentSessionId = sid, !.fetchCalls = @ + 1]

\* the first /fetch-comments settles; on 401 handleSessionExpiry runs up to
\* the /login call of tryReauthenticate
handleFetchSettled(r) ==
  /\ fetchH.pc = "fetch"
  /\ LET e == apiPost(r) IN
       IF e.ok
         THEN /\ storeComments(r)
              /\ fetchFinally
              /\ last' = Ev("handleFetchSettled", "settings", Resp(r, Null))
              /\ UNCHANGED <<identity, loginError, urlError>>
       ELSE IF ~isSessionError(e)
         THEN /\ urlError' = e.message
              /\ fetchFinally
              /\ last' = Ev("handleFetchSettled", "not_session_error", Resp(r, Null))
              /\ UNCHANGED <<identity, users, totalComments, screen, loginError>>
       ELSE IF getSavedCookie(localStorage) = Null
         THEN /\ redirectToLogin(localStorage, expiryMessage(localStorage))
              /\ fetchFinally
              /\ last' = Ev("handleFetchSettled", "redirected", Resp(r, Null))
              /\ UNCHANGED <<users, totalComments, urlError>>
         ELSE /\ fetchH' = tryReauthenticateSend(fetchH, getSavedCookie(localStorage))
              /\ last' = Ev("handleFetchSettled", "reauth", Resp(r, Null))
              /\ UNCHANGED <<identity, users, totalComments, screen, loginError,
                             urlError, btnDisabled>>
  /\ UNCHANGED <<numWinners, minComments, winners, winnersList, settingsError,
                 initH, loginH, runH, logoutH>>

\* the /login of tryReauthenticate settles; on success the fetch is retried
handleReauthSettled(r) ==
  /\ fetchH.pc = "reauth"
  /\ LET e == apiPost(r) IN
       IF e.ok
         THEN /\ sessionId' = r.session_id
              /\ localStorage' = tryReauthenticatePersist(localStorage, r.session_id)
              /\ fetchH' = retrySend(fetchH, sessionId')
              /\ last' = Ev("handleReauthSettled", "reauthenticated", Resp(r, r.session_id))
              /\ UNCHANGED <<screen, loginError, btnDisabled>>
         ELSE LET ls == tryReauthenticateCatch(localStorage, e) IN
              /\ redirectToLogin(ls, expiryMessage(ls))
              /\ fetchFinally
              /\ last' = Ev("handleReauthSettled", "redirected", Resp(r, Null))
  /\ UNCHANGED <<appState, urlError, settingsError, initH, loginH, runH, logoutH>>

\* mutant: a 401 on the retried call goes through handleSessionExpiry again
handleRetrySettled_reauthAgain(r) ==
  /\ fetchH.pc = "retry"
  /\ LET e == apiPost(r) IN
       IF e.ok
         THEN /\ storeComments(r)
              /\ fetchFinally
              /\ last' = Ev("handleRetrySettled", "settings", Resp(r, Null))
              /\ UNCHANGED urlError
       ELSE IF isSessionError(e) /\ getSavedCookie(localStorage) # Null
         THEN /\ fetchH' = tryReauthenticateSend(fetchH, getSavedCookie(localStorage))
              /\ last' = Ev("handleRetrySettled", "reauth", Resp(r, Null))
              /\ UNCHANGED <<users, totalComments, screen, urlError, btnDisabled>>
         ELSE /\ urlError' = e.message
              /\ fetchFinally
              /\ last' = Ev("handleRetrySettled", "error", Resp(r, Null))
              /\ UNCHANGED <<users, totalComments, screen>>
  /\ UNCHANGED <<identity, numWinners, minComments, winners, winnersList,
                 loginError, settingsError, initH, loginH, runH, logoutH>>

\* the retried /fetch-comments settles
handleRetrySettled(r) ==
  /\ fetchH.pc = "retry"
  /\ LET e == apiPost(r) IN
       IF e.ok
         THEN /\ storeComments(r)
              /\ last' = Ev("handleRetrySettled", "settings", Resp(r, Null))
              /\ UNCHANGED urlError
         ELSE /\ urlError' = e.message
              /\ last' = Ev("handleRetrySettled", "error", Resp(r, Null))
              /\ UNCHANGED <<users, totalComments, screen>>
  /\ fetchFinally
  /\ UNCHANGED <<identity, numWinners, minComments, winners, winnersList,
                 loginError, settingsError, initH, loginH, runH, logoutH>>

(* ------------------------------------------------------------------ *)
(* Screen 2: giveaway settings                                         *)
(* ------------------------------------------------------------------ *)

\* the data-value of the option buttons the user clicks
OptionValues == 1..MaxOption

\* handleOptionClick on an option button of one of the two groups
handleOptionClick(setting, value) ==
  /\ screen = "settings"
  /\ IF setting = "num-winners"
       THEN numWinners' = value /\ UNCHANGED minComments
       ELSE minComments' = value /\ UNCHANGED numWinners
  /\ last' = Ev("handleOptionClick", "", NoResp)
  /\ UNCHANGED <<identity, users, totalComments, winners, winnersList, dom, handlers>>

Usernames == {"alice", "bob"}

\* the value of a property the response body does not have (data.winners of a
\* body without "winners"); kept as a tuple so that it compares with arrays
undefined == <<"undefined">>

\* the winners arrays the backend may answer with: distinct handles, in order
WinnerLists ==
  {w \in UNION {[1..n -> Usernames] : n \in 1..MaxWinners} :
     \A a, b \in 1..Len(w) : a # b => w[a] # w[b]}

\* what /pick-winners can answer: a winners array, a 2xx JSON body without
\* one, or a failure
PickResponses ==
  {[kind |-> "ok", status |-> 200, detail |-> "", winners |-> w] :
     w \in WinnerLists \cup {undefined}}
    \cup {[kind |-> f.kind, status |-> f.status, detail |-> f.detail,
           winners |-> <<>>] : f \in Failures}

\* the catalog of congratulatory messages
CONGRATS_MESSAGES ==
  <<"Congratulations!", "You're a winner!", "Lucky you!", "What a pick!",
    "Amazing!", "Incredible!", "Well deserved!", "You did it!", "Brilliant!",
    "Fantastic!">>

\* Math.random() returns k / RandomSteps; the values drawn here are 0 and
\* the largest value below 1
Randoms == {0, RandomSteps - 1}

\* the values Math.random() returns in one shuffle: d[i] is drawn at loop
\* index i
Draws == [1..(Len(CONGRATS_MESSAGES) - 1) -> Randoms]

\* the loop of shuffleCongratsMessages from index i (0-based) down to 1:
\* j = floor(random * (i + 1)), then pool[i] and pool[j] are swapped
RECURSIVE fisherYates(_, _, _)
fisherYates(pool, i, d) ==
  IF i <= 0 THEN pool
  ELSE LET j == (d[i] * (i + 1)) \div RandomSteps
       IN fisherYates([pool EXCEPT ![i + 1] = pool[j + 1],
                                   ![j + 1] = pool[i + 1]], i - 1, d)

\* mutant: every slot draws a message of the catalog on its own
shuffleCongratsMessages_sampled(d) ==
  [k \in 1..Len(CONGRATS_MESSAGES) |->
     IF k = 1 THEN CONGRATS_MESSAGES[1]
     ELSE CONGRATS_MESSAGES[(d[k - 1] * k) \div RandomSteps + 1]]

\* a shuffled copy of the catalog
shuffleCongratsMessages(d) ==
  fisherYates(CONGRATS_MESSAGES, Len(CONGRATS_MESSAGES) - 1, d)

\* congratsPool[i % congratsPool.length]
congratsAt(h) == h.pool[(h.i % Len(h.pool)) + 1]

\* mutant: the animation is started with the winners of the previous run
\* while /pick-winners is still to be sent
handleRunGiveaway_animatesFirst ==
  /\ screen = "settings"
  /\ ~btnDisabled["runGiveawayBtn"]
  /\ settingsError' = ""
  /\ btnDisabled' = setButtonLoading(btnDisabled, "runGiveawayBtn", TRUE)
  /\ screen' = "searching"
  /\ runH' = [RunH0 EXCEPT !.pc = "countdown", !.sentNumWinners = numWinners,
                           !.winners = winners, !.remaining = COUNTDOWN_SECONDS,
                           !.phases = <<"countdown">>,
                           !.pool = CONGRATS_MESSAGES]
  /\ last' = Ev("handleRunGiveaway", "sent", NoResp)
  /\ UNCHANGED <<identity, appState, loginError, urlError,
                 initH, loginH, fetchH, logoutH>>

\* handleRunGiveaway up to its await: /pick-winners is sent
handleRunGiveaway ==
  /\ screen = "settings"
  /\ ~btnDisabled["runGiveawayBtn"]
  /\ settingsError' = ""
  /\ btnDisabled' = setButtonLoading(btnDisabled, "runGiveawayBtn", TRUE)
  /\ runH' = [RunH0 EXCEPT !.pc = "pick", !.sentUsers = users,
                           !.sentNumWinners = numWinners,
                           !.sentMinComments = minComments]
  /\ last' = Ev("handleRunGiveaway", "sent", NoResp)
  /\ UNCHANGED <<identity, appState, screen, loginError, urlError,
                 initH, loginH, fetchH, logoutH>>

(* ------------------------------------------------------------------ *)
(* Screen 3: searching animation; screen 4: results                    *)
(* ------------------------------------------------------------------ *)

\* mutant: the reveal phases go through the list from its end
showRevealPhase_fromEnd(h) ==
  [h EXCEPT !.pc = "reveal", !.phases = Append(@, "reveal"),
            !.revealed = Append(@, h.winners[Len(h.winners) - h.i])]

\* showRevealPhase(winners[i], congrats): the reveal panel shows the handle
\* at the loop index (h.i counts from 0, sequences from 1)
showRevealPhase(h) ==
  [h EXCEPT !.pc = "reveal", !.phases = Append(@, "reveal"),
            !.revealed = Append(@, h.winners[h.i + 1]),
            !.messages = Append(@, congratsAt(h))]

\* mutant: the loop shows the next winner without a countdown
startCountdown_skipsCountdown(h) ==
  showRevealPhase(h)

\* showSearchingPhase and the start of animateCountdown: remaining =
\* COUNTDOWN_SECONDS, the arc reset to empty, the interval armed
startCountdown(h) ==
  [h EXCEPT !.pc = "countdown", !.remaining = COUNTDOWN_SECONDS,
            !.progress = 0, !.ticks = 0, !.phases = Append(@, "countdown")]

\* the end of handleRunGiveaway's try block: runSearchingAnimation returned,
\* showResults(state.winners) fills the list and shows the results screen
finishRun ==
  /\ winnersList' = winners
  /\ screen' = "results"
  /\ runH' = RunH0
  /\ btnDisabled' = setButtonLoading(btnDisabled, "runGiveawayBtn", FALSE)
  /\ last' = Ev("revealDone", "results", NoResp)

\* the message of the TypeError thrown by winners.length on undefined
TypeErrorMessage == "Cannot read properties of undefined (reading 'length')"

\* /pick-winners settles: store the winners and start the animation with a
\* pool shuffled by one of the given draws, or show the error on the settings screen
handlePickSettled(r, draws) ==
  /\ runH.pc = "pick"
  /\ LET e == apiPost(r) IN
       IF e.ok /\ r.winners # undefined
         THEN /\ winners' = r.winners
              /\ screen' = "searching"
              /\ \E d \in draws :
                   runH' = startCountdown([runH EXCEPT
                                             !.sentUsers = <<>>,
                                             !.sentMinComments = 0,
                                             !.winners = r.winners, !.i = 0,
                                             !.pool = shuffleCongratsMessages(d)])
              /\ last' = Ev("handlePickSettled", "searching", Resp(r, Null))
              /\ UNCHANGED <<settingsError, btnDisabled, winnersList>>
       ELSE IF e.ok
         \* state.winners = undefined; navigateTo(screens.searching);
         \* runSearchingAnimation throws the TypeError of undefined.length,
         \* caught by the handler's catch
         THEN /\ winners' = r.winners
              /\ screen' = "searching"
              /\ settingsError' = TypeErrorMessage
              /\ runH' = RunH0
              /\ btnDisabled' = setButtonLoading(btnDisabled, "runGiveawayBtn", FALSE)
              /\ last' = Ev("handlePickSettled", "threw", Resp(r, Null))
              /\ UNCHANGED winnersList
         ELSE /\ settingsError' = e.message
              /\ runH' = RunH0
              /\ btnDisabled' = setButtonLoading(btnDisabled, "runGiveawayBtn", FALSE)
              /\ last' = Ev("handlePickSettled", "error", Resp(r, Null))
              /\ UNCHANGED <<winners, screen, winnersList>>
  /\ UNCHANGED <<identity, users, totalComments, numWinners, minComments,
                 loginError, urlError, initH, loginH, fetchH, logoutH>>

\* mutant: the interval is cleared only once remaining is below zero
countdownTick_stopsBelowZero ==
  /\ runH.pc = "countdown"
  /\ runH' = [runH EXCEPT !.remaining = @ - 1,
                          !.progress = COUNTDOWN_SECONDS - (runH.remaining - 1),
                          !.ticks = @ + 1,
                          !.pc = IF runH.remaining - 1 < 0 THEN "settle" ELSE @]
  /\ last' = Ev("countdownTick", "", NoResp)
  /\ UNCHANGED <<identity, appState, dom, initH, loginH, fetchH, logoutH>>

\* one tick of the countdown interval: remaining and the arc are updated;
\* at zero the interval is cleared and the 400 ms pause starts
countdownTick ==
  /\ runH.pc = "countdown"
  /\ runH' = [runH EXCEPT !.remaining = @ - 1,
                          !.progress = COUNTDOWN_SECONDS - (runH.remaining - 1),
                          !.ticks = @ + 1,
                          !.pc = IF runH.remaining - 1 <= 0 THEN "settle" ELSE @]
  /\ last' = Ev("countdownTick", "", NoResp)
  /\ UNCHANGED <<identity, appState, dom, initH, loginH, fetchH, logoutH>>

\* mutant: the results are shown with the last winner, without the hold
countdownSettled_noHold ==
  /\ runH.pc = "settle"
  /\ IF runH.i + 1 < Len(runH.winners)
       THEN /\ runH' = showRevealPhase(runH)
            /\ last' = Ev("countdownSettled", "", NoResp)
            /\ UNCHANGED <<winnersList, screen, btnDisabled>>
       ELSE /\ winnersList' = winners
            /\ screen' = "results"
            /\ runH' = RunH0
            /\ btnDisabled' = setButtonLoading(btnDisabled, "runGiveawayBtn", FALSE)
            /\ last' = Ev("countdownSettled", "results", NoResp)
  /\ UNCHANGED <<identity, users, totalComments, numWinners, minComments, winners,
                 loginError, urlError, settingsError, initH, loginH, fetchH, logoutH>>

\* the 400 ms pause ends: the reveal phase of winner i begins
countdownSettled ==
  /\ runH.pc = "settle"
  /\ runH' = showRevealPhase(runH)
  /\ last' = Ev("countdownSettled", "", NoResp)
  /\ UNCHANGED <<identity, appState, dom, initH, loginH, fetchH, logoutH>>

\* mutant: the loop ends after the first winner
revealDone_stopsAfterFirst ==
  /\ runH.pc = "reveal"
  /\ finishRun
  /\ UNCHANGED <<identity, users, totalComments, numWinners, minComments, winners,
                 loginError, urlError, settingsError, initH, loginH, fetchH, logoutH>>

\* wait(WINNER_REVEAL_SECONDS) ends: next winner, or the results
revealDone ==
  /\ runH.pc = "reveal"
  /\ IF runH.i + 1 < Len(runH.winners)
       THEN /\ runH' = startCountdown([runH EXCEPT !.i = @ + 1])
            /\ last' = Ev("revealDone", "next", NoResp)
            /\ UNCHANGED <<winnersList, screen, btnDisabled>>
       ELSE finishRun
  /\ UNCHANGED <<identity, users, totalComments, numWinners, minComments, winners,
                 loginError, urlError, settingsError, initH, loginH, fetchH, logoutH>>

\* mutant: "run again" also drops the session
handleRunAgain_forgetsSession ==
  /\ screen = "results"
  /\ sessionId' = Null
  /\ localStorage' = clearSavedSessionId(localStorage)
  /\ users' = <<>>
  /\ totalComments' = 0
  /\ numWinners' = 1
  /\ minComments' = 1
  /\ winners' = <<>>
  /\ urlError' = ""
  /\ settingsError' = ""
  /\ winnersList' = <<>>
  /\ screen' = "pasteLink"
  /\ last' = Ev("handleRunAgain", "", NoResp)
  /\ UNCHANGED <<loginError, btnDisabled, handlers>>

\* mutant: "run again" clears the data but keeps the chosen settings
handleRunAgain_keepsSettings ==
  /\ screen = "results"
  /\ users' = <<>>
  /\ totalComments' = 0
  /\ winners' = <<>>
  /\ urlError' = ""
  /\ settingsError' = ""
  /\ winnersList' = <<>>
  /\ screen' = "pasteLink"
  /\ last' = Ev("handleRunAgain", "", NoResp)
  /\ UNCHANGED <<identity, numWinners, minComments, loginError, btnDisabled, handlers>>

\* mutant: "run again" can be triggered from the searching screen too
handleRunAgain_whileSearching ==
  /\ screen \in {"searching", "results"}
  /\ users' = <<>>
  /\ totalComments' = 0
  /\ numWinners' = 1
  /\ minComments' = 1
  /\ winners' = <<>>
  /\ urlError' = ""
  /\ settingsError' = ""
  /\ winnersList' = <<>>
  /\ screen' = "pasteLink"
  /\ last' = Ev("handleRunAgain", "", NoResp)
  /\ UNCHANGED <<identity, loginError, btnDisabled, handlers>>

\* handleRunAgain
handleRunAgain ==
  /\ screen = "results"
  /\ users' = <<>>
  /\ totalComments' = 0
  /\ numWinners' = 1
  /\ minComments' = 1
  /\ winners' = <<>>
  /\ urlError' = ""
  /\ settingsError' = ""
  /\ winnersList' = <<>>
  /\ screen' = "pasteLink"
  /\ last' = Ev("handleRunAgain", "", NoResp)
  /\ UNCHANGED <<identity, loginError, btnDisabled, handlers>>

\* handleShare: the results are handed to the share sheet or the clipboard;
\* nothing of the application's state is written
handleShare ==
  /\ screen = "results"
  /\ last' = Ev("handleShare", "", NoResp)
  /\ UNCHANGED <<identity, appState, dom, handlers>>

\* The selection collaborator, as its contract describes it: the handles
\* with at least threshold (the minComments sent) comments are eligible; it
\* answers with
\* winnerCount different eligible handles in some order, or reports an
\* error when there are fewer eligible handles than that
eligibleHandles(participants, threshold) ==
  {participants[k].username :
     k \in {n \in 1..Len(participants) :
              participants[n].comment_count >= threshold}}

NotEnoughEligible ==
  [kind |-> "http", status |-> 400, detail |-> "Not enough eligible users",
   winners |-> <<>>]

selectWinners(participants, winnerCount, threshold) ==
  LET e == eligibleHandles(participants, threshold) IN
  IF Cardinality(e) < winnerCount
    THEN {NotEnoughEligible}
    ELSE {[kind |-> "ok", status |-> 200, detail |-> "", winners |-> w] :
            w \in {x \in [1..winnerCount -> e] :
                     \A a, b \in 1..winnerCount : a # b => x[a] # x[b]}}

(* ------------------------------------------------------------------ *)
(* Specifications                                                      *)
(* ------------------------------------------------------------------ *)

\* The session manager and the comment fetch: every interleaving of page
\* loads, login, logout and fetch submissions with the pending responses.
\* The giveaway handlers below the settings screen never touch sessionId or
\* localStorage; they are left out here and run under RunSpec.
Next ==
  \/ initStart
  \/ \E r \in PlainResponses : initValidateSettled(r)
  \/ \E r \in LoginResponses : initLoginSettled(r)
  \/ Reload
  \/ \E input \in CookieInputs : handleLogin(input)
  \/ \E r \in LoginResponses : handleLoginSettled(r)
  \/ handleLogout
  \/ \E r \in PlainResponses : handleLogoutSettled(r)
  \/ \E input \in UrlInputs : handleFetchComments(input)
  \/ \E r \in FetchResponses : handleFetchSettled(r)
  \/ \E r \in LoginResponses : handleReauthSettled(r)
  \/ \E r \in FetchResponses : handleRetrySettled(r)

Spec == Init /\ [][Next]_vars

\* The whole page with the giveaway run: the handlers of Next together with
\* the giveaway handlers, every interleaving of them, with the user's inputs
\* and the server's answers drawn from fewer values (one credential, one
\* session id, one comment set, one shuffle, answers that are a success, a
\* 401 or, for /pick-winners, a 500 or a body without winners).
RunCookieInputs == {<<>>, <<"c1">>}
RunUrlInputs == {<<"not-a-url">>, <<"https://www.instagram.com/p/abc/">>}
RunPlainResponses == {OkResp}
RunLoginResponses ==
  {r \in LoginResponses :
     r.detail = "" /\ r.status \in {200, 401} /\ r.session_id # "h2"}
RunFetchResponses ==
  {r \in FetchResponses :
     r.detail = "" /\ r.status \in {200, 401} /\ r.total_comments # 1}
RunPickResponses ==
  {r \in PickResponses :
     /\ r.detail = ""
     /\ r.status \in {200, 401, 500}
     /\ r.winners = undefined \/ r.winners = <<>> \/ r.winners[1] = "alice"}

\* the shuffle that draws 0 every time
RunDraws == {[i \in 1..(Len(CONGRATS_MESSAGES) - 1) |-> 0]}

RunInit == Init /\ getSavedCookie(localStorage) # "c2"
                /\ getSavedSessionId(localStorage) # "h2"

RunNext ==
  \/ initStart
  \/ \E r \in RunPlainResponses : initValidateSettled(r)
  \/ \E r \in RunLoginResponses : initLoginSettled(r)
  \/ Reload
  \/ \E input \in RunCookieInputs : handleLogin(input)
  \/ \E r \in RunLoginResponses : handleLoginSettled(r)
  \/ handleLogout
  \/ \E r \in RunPlainResponses : handleLogoutSettled(r)
  \/ \E input \in RunUrlInputs : handleFetchComments(input)
  \/ \E r \in RunFetchResponses : handleFetchSettled(r)
  \/ \E r \in RunLoginResponses : handleReauthSettled(r)
  \/ \E r \in RunFetchResponses : handleRetrySettled(r)
  \/ \E setting \in {"num-winners", "min-comments"}, value \in OptionValues :
       handleOptionClick(setting, value)
  \/ handleRunGiveaway
  \/ \E r \in RunPickResponses : handlePickSettled(r, RunDraws)
  \/ countdownTick
  \/ countdownSettled
  \/ revealDone
  \/ handleShare
  \/ handleRunAgain

RunSpec == RunInit /\ [][RunNext]_vars

\* One user on a fresh page who logs in, fetches and runs giveaways, with
\* every shuffle of Draws and winners arrays up to MaxRevealed handles
CongratsHandles(n) == [k \in 1..n |-> "w" \o ToString(k)]

CongratsPickResponses ==
  {[kind |-> "ok", status |-> 200, detail |-> "", winners |-> CongratsHandles(n)] :
     n \in 1..MaxRevealed}

CongratsLoginResponses == {r \in RunLoginResponses : r.status = 200}

CongratsFetchResponses ==
  {r \in RunFetchResponses : r.status = 200}

CongratsInit == Init /\ getSavedCookie(localStorage) = Null
                     /\ getSavedSessionId(localStorage) = Null

CongratsNext ==
  \/ initStart
  \/ handleLogin(<<"c1">>)
  \/ \E r \in CongratsLoginResponses : handleLoginSettled(r)
  \/ handleFetchComments(<<"https://www.instagram.com/p/abc/">>)
  \/ \E r \in CongratsFetchResponses : handleFetchSettled(r)
  \/ handleRunGiveaway
  \/ \E r \in CongratsPickResponses : handlePickSettled(r, Draws)
  \/ countdownTick
  \/ countdownSettled
  \/ revealDone
  \/ handleRunAgain

CongratsSpec == CongratsInit /\ [][CongratsNext]_vars

\* One page load from empty storage, with logins and logouts at any time,
\* /fetch-comments answered with comments, and /pick-winners answered as
\* the selection collaborator's contract says or with a server error; the
\* fair specification adds that armed timers fire
ContractPickResponses(h) ==
  selectWinners(h.sentUsers, h.sentNumWinners, h.sentMinComments)
    \cup {r \in RunPickResponses : r.status = 500}

ContractNext ==
  \/ initStart
  \/ \E input \in RunCookieInputs : handleLogin(input)
  \/ \E r \in RunLoginResponses : handleLoginSettled(r)
  \/ handleLogout
  \/ \E r \in RunPlainResponses : handleLogoutSettled(r)
  \/ \E input \in RunUrlInputs : handleFetchComments(input)
  \/ \E r \in CongratsFetchResponses : handleFetchSettled(r)
  \/ \E setting \in {"num-winners", "min-comments"}, value \in OptionValues :
       handleOptionClick(setting, value)
  \/ handleRunGiveaway
  \/ \E r \in ContractPickResponses(runH) : handlePickSettled(r, RunDraws)
  \/ countdownTick
  \/ countdownSettled
  \/ revealDone
  \/ handleShare
  \/ handleRunAgain

ContractSpec == CongratsInit /\ [][ContractNext]_vars

FairContractSpec ==
  /\ ContractSpec
  /\ WF_vars(countdownTick)
  /\ WF_vars(countdownSettled)
  /\ WF_vars(revealDone)

\* One page load that is not reloaded, with every handler, valid inputs, an
\* API that answers every request (a success, a 401 or a 500) and timers
\* that fire
LiveFetchResponses ==
  {r \in FetchResponses :
     r.detail = "" /\ r.status \in {200, 401, 500} /\ r.total_comments # 1}

LivePickResponses ==
  {r \in RunPickResponses :
     r.status \in {200, 500} /\ (r.winners = undefined \/ Len(r.winners) <= 1)}

LiveNext ==
  \/ initStart
  \/ \E r \in RunPlainResponses : initValidateSettled(r)
  \/ \E r \in RunLoginResponses : initLoginSettled(r)
  \/ handleLogin(<<"c1">>)
  \/ \E r \in RunLoginResponses : handleLoginSettled(r)
  \/ handleLogout
  \/ \E r \in RunPlainResponses : handleLogoutSettled(r)
  \/ handleFetchComments(<<"https://www.instagram.com/p/abc/">>)
  \/ \E r \in LiveFetchResponses : handleFetchSettled(r)
  \/ \E r \in RunLoginResponses : handleReauthSettled(r)
  \/ \E r \in LiveFetchResponses : handleRetrySettled(r)
  \/ handleRunGiveaway
  \/ \E r \in LivePickResponses : handlePickSettled(r, RunDraws)
  \/ countdownTick
  \/ countdownSettled
  \/ revealDone
  \/ handleRunAgain

LiveSpec ==
  /\ RunInit
  /\ [][LiveNext]_vars
  /\ WF_vars(initStart)
  /\ WF_vars(\E r \in RunPlainResponses : initValidateSettled(r))
  /\ WF_vars(\E r \in RunLoginResponses : initLoginSettled(r))
  /\ WF_vars(\E r \in RunLoginResponses : handleLoginSettled(r))
  /\ WF_vars(\E r \in RunPlainResponses : handleLogoutSettled(r))
  /\ WF_vars(\E r \in LiveFetchResponses : handleFetchSettled(r))
  /\ WF_vars(\E r \in RunLoginResponses : handleReauthSettled(r))
  /\ WF_vars(\E r \in LiveFetchResponses : handleRetrySettled(r))
  /\ WF_vars(\E r \in LivePickResponses : handlePickSettled(r, RunDraws))
  /\ WF_vars(countdownTick)
  /\ WF_vars(countdownSettled)
  /\ WF_vars(revealDone)

(* ------------------------------------------------------------------ *)
(* The variant without persistence (src/unnamed/part_000)              *)
(* ------------------------------------------------------------------ *)

\* In this variant nothing reads or writes localStorage and init() only
\* registers the listeners: the page starts on the login screen of the
\* markup with state.sessionId null.  apiPost, setButtonLoading and
\* INSTAGRAM_URL_RE are the same code as in app.js.
Init_part000 ==
  /\ sessionId = Null
  /\ users = <<>>
  /\ totalComments = 0
  /\ numWinners = 1
  /\ minComments = 1
  /\ winners = <<>>
  /\ winnersList = <<>>
  /\ localStorage = [k \in {COOKIE_STORAGE_KEY, SESSION_ID_STORAGE_KEY} |-> Null]
  /\ screen = "login"
  /\ loginError = ""
  /\ urlError = ""
  /\ settingsError = ""
  /\ btnDisabled = [b \in Buttons |-> FALSE]
  /\ initH = initReturn(InitH0)
  /\ loginH = LoginH0
  /\ fetchH = FetchH0
  /\ runH = RunH0
  /\ logoutH = 0
  /\ last = Ev("load", "", NoResp)

\* handleLogin up to its await
handleLogin_part000(input) ==
  /\ screen = "login"
  /\ ~btnDisabled["loginBtn"]
  /\ LET sessionCookie == CookieText(trim(input)) IN
       IF sessionCookie = ""
         THEN /\ loginError' = "Please paste your Instagram session cookie."
              /\ last' = Ev("handleLogin", "validation", NoResp)
              /\ UNCHANGED <<btnDisabled, loginH>>
         ELSE /\ loginError' = ""
              /\ btnDisabled' = setButtonLoading(btnDisabled, "loginBtn", TRUE)
              /\ loginH' = [LoginH0 EXCEPT !.pc = "login",
                              !.sessionCookie = sessionCookie, !.loginCalls = 1]
              /\ last' = Ev("handleLogin", "sent", NoResp)
  /\ UNCHANGED <<identity, appState, screen, urlError, settingsError,
                 initH, fetchH, runH, logoutH>>

\* /login settles for handleLogin: the session id is kept in memory only
handleLoginSettled_part000(r) ==
  /\ loginH.pc = "login"
  /\ LET e == apiPost(r) IN
       IF e.ok
         THEN /\ sessionId' = r.session_id
              /\ screen' = "pasteLink"
              /\ last' = Ev("handleLoginSettled", "ok", Resp(r, r.session_id))
              /\ UNCHANGED loginError
         ELSE /\ loginError' = e.message
              /\ last' = Ev("handleLoginSettled", "error", Resp(r, Null))
              /\ UNCHANGED <<sessionId, screen>>
  /\ loginH' = LoginH0
  /\ btnDisabled' = setButtonLoading(btnDisabled, "loginBtn", FALSE)
  /\ UNCHANGED <<localStorage, appState, urlError, settingsError, initH, fetchH,
                 runH, logoutH>>

\* the logout link is clicked: with a session, wait for /logout first
handleLogout_part000 ==
  /\ IF sessionId # Null
       THEN /\ logoutH < MaxLogouts
            /\ logoutH' = logoutH + 1
            /\ last' = Ev("handleLogout", "sent", NoResp)
            /\ UNCHANGED <<sessionId, screen>>
       ELSE /\ sessionId' = Null
            /\ screen' = "login"
            /\ last' = Ev("handleLogout", "done", NoResp)
            /\ UNCHANGED logoutH
  /\ UNCHANGED <<localStorage, appState, loginError, urlError, settingsError,
                 btnDisabled, initH, loginH, fetchH, runH>>

\* /logout settles, with any outcome
handleLogoutSettled_part000(r) ==
  /\ logoutH > 0
  /\ logoutH' = logoutH - 1
  /\ sessionId' = Null
  /\ screen' = "login"
  /\ last' = Ev("handleLogoutSettled", "done", Resp(r, Null))
  /\ UNCHANGED <<localStorage, appState, loginError, urlError, settingsError,
                 btnDisabled, initH, loginH, fetchH, runH>>

\* handleFetchComments up to its await
handleFetchComments_part000(input) ==
  /\ screen = "pasteLink"
  /\ ~btnDisabled["fetchBtn"]
  /\ LET url == UrlText(trim(input)) IN
       IF url = ""
         THEN /\ urlError' = "Please paste an Instagram link."
              /\ last' = Ev("handleFetchComments", "validation", NoResp)
              /\ UNCHANGED <<btnDisabled, fetchH>>
       ELSE IF ~INSTAGRAM_URL_RE(url)
         THEN /\ urlError' = "That doesn't look like a valid Instagram post URL."
              /\ last' = Ev("handleFetchComments", "validation", NoResp)
              /\ UNCHANGED <<btnDisabled, fetchH>>
         ELSE /\ urlError' = ""
              /\ btnDisabled' = setButtonLoading(btnDisabled, "fetchBtn", TRUE)
              /\ fetchH' = [FetchH0 EXCEPT !.pc = "fetch", !.url = url,
                              !.sentSessionId = sessionId, !.fetchCalls = 1]
              /\ last' = Ev("handleFetchComments", "sent", NoResp)
  /\ UNCHANGED <<identity, appState, screen, loginError, settingsError,
                 initH, loginH, runH, logoutH>>

\* mutant: every error response of the API counts as an expired session
handleSessionExpiry_part000_anyApiError(e) == e.isApiError

\* handleSessionExpiry(err): its return value
handleSessionExpiry_part000(e) == e.isApiError /\ e.status = 401

\* /fetch-comments settles: the comments are stored, or handleSessionExpiry
\* sends the user to the login screen, or the error is shown on the form;
\* the finally block ends the handler
handleFetchSettled_part000(r) ==
  /\ fetchH.pc = "fetch"
  /\ LET e == apiPost(r) IN
       IF e.ok
         THEN /\ users' = r.users
              /\ totalComments' = r.total_comments
              /\ screen' = "settings"
              /\ last' = Ev("handleFetchSettled", "settings", Resp(r, Null))
              /\ UNCHANGED <<sessionId, loginError, urlError>>
       ELSE IF handleSessionExpiry_part000(e)
         THEN /\ sessionId' = Null
              /\ screen' = "login"
              /\ loginError' = "Session expired, please log in again."
              /\ last' = Ev("handleFetchSettled", "redirected", Resp(r, Null))
              /\ UNCHANGED <<users, totalComments, urlError>>
         ELSE /\ urlError' = e.message
              /\ last' = Ev("handleFetchSettled", "not_session_error", Resp(r, Null))
              /\ UNCHANGED <<sessionId, users, totalComments, screen, loginError>>
  /\ fetchH' = FetchH0
  /\ btnDisabled' = setButtonLoading(btnDisabled, "fetchBtn", FALSE)
  /\ UNCHANGED <<localStorage, numWinners, minComments, winners, winnersList,
                 settingsError, initH, loginH, runH, logoutH>>

\* the session and fetch handlers of the variant, with every input and
\* every response
Next_part000 ==
  \/ \E input \in CookieInputs : handleLogin_part000(input)
  \/ \E r \in LoginResponses : handleLoginSettled_part000(r)
  \/ handleLogout_part000
  \/ \E r \in PlainResponses : handleLogoutSettled_part000(r)
  \/ \E input \in UrlInputs : handleFetchComments_part000(input)
  \/ \E r \in FetchResponses : handleFetchSettled_part000(r)

Spec_part000 == Init_part000 /\ [][Next_part000]_vars

(* ------------------------------------------------------------------ *)
(* Properties                                                          *)
(* ------------------------------------------------------------------ *)

\* this step is the block op (a handler's block, not a reload)
Step(op) == last'.op = op

\* the credential a settling /login was sent with: the local savedCookie of
\* init() or tryReauthenticate, the input of handleLogin
SentCookie(op) ==
  CASE op = "initLoginSettled" -> initH.savedCookie
    [] op = "handleReauthSettled" -> fetchH.sentCookie
    [] op = "handleLoginSettled" -> loginH.sessionCookie
    [] OTHER -> Null

\* the step removes the persisted credential
CookieRemoved ==
  getSavedCookie(localStorage) # Null /\ getSavedCookie(localStorage') = Null

\* C1: the persisted credential is removed only by a logout or by the block
\* that handles a 401 answer to a /login call made with that very credential;
\* no network failure and no other error response removes it.
C1_CookieRemovedOnlyWhenStaleOrLogout ==
  [][CookieRemoved =>
       \/ last'.op \in {"handleLogout", "handleLogoutSettled"}
       \/ /\ last'.op \in {"initLoginSettled", "handleReauthSettled"}
          /\ last'.resp = "unauthorized"
          /\ SentCookie(last'.op) = getSavedCookie(localStorage)]_vars

\* a removal is always a logout or the handling of a 401 answer to some
\* /login call, whichever credential that call carried
CookieRemovedOnlyOn401OrLogout ==
  [][CookieRemoved =>
       \/ last'.op \in {"handleLogout", "handleLogoutSettled"}
       \/ /\ last'.op \in {"initLoginSettled", "handleReauthSettled"}
          /\ last'.resp = "unauthorized"]_vars


\* the error texts apiPost can throw
ApiMessages == {apiPost(f).message : f \in Failures}

\* C2: when the /login of the re-authentication succeeds, the same block
\* sends the second /fetch-comments call of the submission, for the same url,
\* with no user action in between; nothing else is sent while it is pending;
\* and when it succeeds the users and the total are stored, the settings
\* screen is shown and the submission is over after exactly two fetch calls.
C2_RetryOnceAfterReauth ==
  [][/\ (Step("handleReauthSettled") /\ last'.resp = "ok") =>
          /\ fetchH'.pc = "retry"
          /\ fetchH'.url = fetchH.url
          /\ fetchH.fetchCalls = 1
          /\ fetchH'.fetchCalls = 2
          /\ fetchH'.loginCalls = fetchH.loginCalls
     /\ (fetchH.pc = "retry" /\ fetchH'.pc = "retry") => fetchH' = fetchH
     /\ (Step("handleRetrySettled") /\ last'.resp = "ok") =>
          /\ fetchH.fetchCalls = 2
          /\ fetchH'.pc = "idle"
          /\ \E d \in FetchData :
               users' = d.users /\ totalComments' = d.total_comments
          /\ screen' = "settings"]_vars

\* C2 witness: a retried fetch has just succeeded
C2_Witness ==
  /\ last.op = "handleRetrySettled"
  /\ last.resp = "ok"
  /\ screen = "settings"
  /\ users # <<>>
  /\ sessionId # Null

\* C3: a submission never has more than two /fetch-comments calls and one
\* /login call; when the retried call fails, with 401 or otherwise, the
\* handler ends there: its message is shown on the fetch form, nothing is
\* sent, and screen, users, total and identity stay as they were.
C3_AtMostOneRetry ==
  [][/\ fetchH'.fetchCalls <= 2
     /\ fetchH'.loginCalls <= 1
     /\ (Step("handleRetrySettled") /\ last'.resp # "ok") =>
          /\ fetchH'.pc = "idle"
          /\ urlError' \in ApiMessages
          /\ screen' = screen
          /\ screen' # "settings"
          /\ UNCHANGED <<users, totalComments, sessionId, localStorage>>]_vars

\* C3 witness: the retried fetch was answered 401 and the handler stopped
C3_Witness ==
  /\ last.op = "handleRetrySettled"
  /\ last.resp = "unauthorized"
  /\ fetchH.pc = "idle"
  /\ urlError = RequestFailed(401)
  /\ screen = "pasteLink"

\* C4: handling a failed /fetch-comments sends exactly one /login, carrying
\* the persisted credential, when the answer was 401 and a credential is
\* persisted; it sends none when the answer was 401 and none is persisted, and
\* none when the answer was not 401; and "reauthenticated" (the retry) only
\* follows a successful answer to that one /login.
C4_OneLoginPerExpiry ==
  [][/\ (Step("handleFetchSettled") /\ last'.resp = "unauthorized") =>
          IF getSavedCookie(localStorage) # Null
            THEN /\ fetchH'.pc = "reauth"
                 /\ fetchH'.loginCalls = fetchH.loginCalls + 1
                 /\ fetchH'.sentCookie = getSavedCookie(localStorage)
            ELSE /\ fetchH'.pc = "idle"
                 /\ fetchH.loginCalls = 0
                 /\ last'.out = "redirected"
     /\ (Step("handleFetchSettled") /\ last'.resp = "other") =>
          /\ fetchH'.pc = "idle"
          /\ fetchH.loginCalls = 0
          /\ last'.out = "not_session_error"
     /\ (fetchH.pc = "reauth" /\ fetchH'.pc = "reauth") => fetchH' = fetchH
     /\ last'.out = "reauthenticated" =>
          /\ Step("handleReauthSettled")
          /\ last'.resp = "ok"
          /\ fetchH.loginCalls = 1]_vars

\* C4 witness: a 401 answer met a persisted credential and one /login is out
C4_Witness ==
  /\ last.op = "handleFetchSettled"
  /\ last.resp = "unauthorized"
  /\ fetchH.pc = "reauth"
  /\ fetchH.loginCalls = 1
  /\ fetchH.sentCookie \in Cookies

\* the step ends a failed recovery: the /login of tryReauthenticate failed,
\* or there was no credential to try
RecoveryFailed ==
  \/ Step("handleReauthSettled") /\ last'.resp # "ok"
  \/ Step("handleFetchSettled") /\ last'.resp = "unauthorized"
       /\ getSavedCookie(localStorage) = Null

\* C5: when recovery fails, sessionId and the persisted session id are
\* cleared and the login screen is shown; the persisted credential is gone
\* afterwards exactly when the /login call was answered 401 and is otherwise
\* what it was; the handler ends without a retry and users and total are
\* untouched.
C5_FailedRecovery ==
  [][RecoveryFailed =>
       /\ sessionId' = Null
       /\ getSavedSessionId(localStorage') = Null
       /\ screen' = "login"
       /\ loginError' = IF getSavedCookie(localStorage') # Null
                          THEN "Could not reconnect to Instagram. Please try again."
                          ELSE "Your session cookie has expired. Please paste a new one."
       /\ IF Step("handleReauthSettled") /\ last'.resp = "unauthorized"
            THEN getSavedCookie(localStorage') = Null
            ELSE getSavedCookie(localStorage') = getSavedCookie(localStorage)
       /\ fetchH'.pc = "idle"
       /\ fetchH.fetchCalls = 1
       /\ UNCHANGED <<users, totalComments>>]_vars

\* C5 witness: the /login of a re-authentication failed without a 401 and the
\* credential is still there
C5_Witness ==
  /\ last.op = "handleReauthSettled"
  /\ last.resp = "other"
  /\ getSavedCookie(localStorage) \in Cookies
  /\ sessionId = Null
  /\ screen = "login"


\* C6: on every page load whose /validate-session call is accepted, the
\* persisted session id becomes sessionId as it is, localStorage is left as
\* it was, the paste-link screen is shown and init() returns having sent no
\* /login call.
C6_Tier1Only ==
  [][(Step("initValidateSettled") /\ last'.resp = "ok") =>
       /\ getSavedSessionId(localStorage) \in Handles
       /\ sessionId' = getSavedSessionId(localStorage)
       /\ localStorage' = localStorage
       /\ screen' = "pasteLink"
       /\ initH'.pc = "done"
       /\ initH'.validateCalls = 1
       /\ initH'.loginCalls = 0]_vars

\* C6 witness: a page load restored by tier 1 alone, after an earlier load
\* had already stored this session
C6_Witness ==
  /\ last.op = "initValidateSettled"
  /\ last.resp = "ok"
  /\ sessionId \in Handles
  /\ sessionId = getSavedSessionId(localStorage)
  /\ getSavedCookie(localStorage) \in Cookies
  /\ initH.pc = "done"
  /\ initH.loginCalls = 0

\* C7: when /validate-session failed and the tier-2 /login succeeds, init()
\* returns on the paste-link screen after exactly one /login call, and the
\* session id of that response is both sessionId and the persisted session id.
C7_Tier2Restores ==
  [][(Step("initLoginSettled") /\ last'.resp = "ok" /\ initH.validateCalls = 1) =>
       /\ last'.sid \in Handles
       /\ sessionId' = last'.sid
       /\ getSavedSessionId(localStorage') = last'.sid
       /\ getSavedCookie(localStorage') = getSavedCookie(localStorage)
       /\ screen' = "pasteLink"
       /\ initH'.pc = "done"
       /\ initH'.loginCalls = 1]_vars

\* C7 witness: restored by tier 2 after a failed validation
C7_Witness ==
  /\ last.op = "initLoginSettled"
  /\ last.resp = "ok"
  /\ initH.validateCalls = 1
  /\ initH.loginCalls = 1
  /\ sessionId = last.sid
  /\ screen = "pasteLink"

\* C8: when the tier-2 /login is answered 401, both persisted values are
\* gone afterwards; when it fails otherwise, the persisted credential is what
\* it was; either way sessionId stays null, the login screen is shown and
\* init() returns.
C8_Tier2Failure ==
  [][(Step("initLoginSettled") /\ last'.resp # "ok") =>
       /\ IF last'.resp = "unauthorized"
            THEN /\ getSavedCookie(localStorage') = Null
                 /\ getSavedSessionId(localStorage') = Null
            ELSE /\ getSavedCookie(localStorage') = getSavedCookie(localStorage)
                 /\ getSavedCookie(localStorage') \in Cookies
       /\ sessionId' = Null
       /\ screen' = "login"
       /\ initH'.pc = "done"]_vars

\* C8 witness: tier 2 failed without a 401 and the credential is kept
C8_Witness ==
  /\ last.op = "initLoginSettled"
  /\ last.resp = "other"
  /\ getSavedCookie(localStorage) \in Cookies
  /\ sessionId = Null
  /\ screen = "login"

\* the blocks in which a /login call settles
LoginSettledOps == {"handleLoginSettled", "handleReauthSettled", "initLoginSettled"}

\* C9: right after a /login call was answered 401, whoever made it, no
\* session id is persisted.
C9_NoHandleAfterUnauthorizedLogin ==
  (last.op \in LoginSettledOps /\ last.resp = "unauthorized")
    => getSavedSessionId(localStorage) = Null

\* C10: a handleLogin whose /login call fails, with 401 or otherwise, changes
\* neither sessionId nor localStorage in either of its two blocks, shows the
\* error's message on the login form, stays on the login form's screen and
\* re-enables the button.
C10_FailedLoginChangesNothing ==
  [][/\ Step("handleLogin") => UNCHANGED <<sessionId, localStorage>>
     /\ (Step("handleLoginSettled") /\ last'.resp # "ok") =>
          /\ UNCHANGED <<sessionId, localStorage, screen>>
          /\ loginError' \in ApiMessages
          /\ loginH'.pc = "idle"
          /\ ~btnDisabled'["loginBtn"]]_vars

\* C10 witness: a login was answered 401 while a credential was persisted
C10_Witness ==
  /\ last.op = "handleLoginSettled"
  /\ last.resp = "unauthorized"
  /\ loginError = RequestFailed(401)
  /\ getSavedCookie(localStorage) \in Cookies


\* C11: when the /login call of handleLogin succeeds, the session id of the
\* response is sessionId and the persisted session id, the persisted
\* credential is the trimmed cookie the call was sent with, and the paste-link
\* screen is shown with the giveaway data untouched.
C11_LoginSuccessStoresBoth ==
  [][(Step("handleLoginSettled") /\ last'.resp = "ok") =>
       /\ last'.sid \in Handles
       /\ sessionId' = last'.sid
       /\ getSavedSessionId(localStorage') = last'.sid
       /\ loginH.sessionCookie \in Cookies
       /\ getSavedCookie(localStorage') = loginH.sessionCookie
       /\ screen' = "pasteLink"
       /\ loginH'.pc = "idle"
       /\ UNCHANGED appState]_vars

\* C11 witness: a login on the login form succeeded and the credential it
\* sent and the session id it received are both stored
C11_Witness ==
  /\ last.op = "handleLoginSettled"
  /\ last.resp = "ok"
  /\ sessionId = last.sid
  /\ getSavedSessionId(localStorage) = last.sid
  /\ getSavedCookie(localStorage) \in Cookies
  /\ screen = "pasteLink"

\* the step completes a handleLogout call: at once when there was no session,
\* or when its /logout call settles
LogoutCompletes ==
  \/ Step("handleLogoutSettled")
  \/ Step("handleLogout") /\ last'.out = "done"

\* C12: when handleLogout completes, whatever the answer to /logout, sessionId
\* is null, neither persisted value is left, the login screen is shown and no
\* error text is set; and a /logout call is sent only when sessionId was set.
C12_LogoutAlwaysCleans ==
  [][/\ LogoutCompletes =>
          /\ sessionId' = Null
          /\ getSavedCookie(localStorage') = Null
          /\ getSavedSessionId(localStorage') = Null
          /\ screen' = "login"
          /\ UNCHANGED <<loginError, urlError, settingsError>>
     /\ Step("handleLogout") =>
          IF sessionId # Null
            THEN last'.out = "sent" /\ logoutH' = logoutH + 1
            ELSE last'.out = "done" /\ logoutH' = logoutH]_vars

\* C12 witness: a logout whose /logout call failed has completed
C12_Witness ==
  /\ last.op = "handleLogoutSettled"
  /\ last.resp = "other"
  /\ sessionId = Null
  /\ localStorage = clearSavedSessionId(clearSavedCookie(localStorage))
  /\ screen = "login"

\* C13: the block that runs when logout is invoked, up to its first await,
\* already leaves sessionId null and neither persisted value in localStorage,
\* so that nothing running while /logout is pending can see them.
C13_LogoutClearsSynchronously ==
  [][Step("handleLogout") =>
       /\ sessionId' = Null
       /\ getSavedCookie(localStorage') = Null
       /\ getSavedSessionId(localStorage') = Null]_vars

\* C14: a handleLogout call that directly follows another handleLogout call
\* (no other handler runs in between, whether or not the first call's /logout
\* has been answered) sends no /logout call and ends at once in the state a
\* logout leaves: no session id, nothing persisted, the login screen.
C14_SecondLogoutIsNoop ==
  [][(last.op \in {"handleLogout", "handleLogoutSettled"} /\ Step("handleLogout")) =>
       /\ last'.out = "done"
       /\ logoutH' = logoutH
       /\ sessionId' = Null
       /\ getSavedCookie(localStorage') = Null
       /\ getSavedSessionId(localStorage') = Null
       /\ screen' = "login"]_vars

\* a text that has the shape of a link to an Instagram post, reel or video
PostReference(t) ==
  /\ UrlParts(t).scheme \in {"http", "https"}
  /\ UrlParts(t).host \in {"instagram.com", "www.instagram.com"}
  /\ UrlParts(t).kind \in {"p", "reel", "tv"}
  /\ UrlParts(t).code # ""

\* the step is a form submission stopped by local validation
ValidationStop ==
  (Step("handleFetchComments") \/ Step("handleLogin")) /\ last'.out # "sent"

\* C16: a fetch submission sends /fetch-comments only with a non-empty url of
\* the Instagram post shape, and a login submission sends /login only with a
\* non-empty cookie; every other submission ends in the submitting block with
\* a validation message on its form, no call, no button disabled, and screen,
\* giveaway data, sessionId and localStorage as they were.
C16_InvalidInputStaysLocal ==
  [][/\ (Step("handleFetchComments") /\ last'.out = "sent") =>
          fetchH'.url \in UrlTexts /\ PostReference(fetchH'.url)
     /\ (Step("handleLogin") /\ last'.out = "sent") =>
          loginH'.sessionCookie \in Cookies
     /\ ValidationStop =>
          /\ last'.out = "validation"
          /\ UNCHANGED <<handlers, btnDisabled, screen, appState, identity>>
          /\ IF Step("handleLogin")
               THEN /\ loginError' = "Please paste your Instagram session cookie."
                    /\ UNCHANGED urlError
               ELSE /\ urlError' \in {"Please paste an Instagram link.",
                                      "That doesn't look like a valid Instagram post URL."}
                    /\ UNCHANGED loginError]_vars

\* C16 witness: a link that is not a post url was rejected on the fetch form
C16_Witness ==
  /\ last.op = "handleFetchComments"
  /\ last.out = "validation"
  /\ urlError = "That doesn't look like a valid Instagram post URL."
  /\ fetchH = FetchH0
  /\ ~btnDisabled["fetchBtn"]
  /\ screen = "pasteLink"

\* C18: while a handleFetchComments call is anywhere between its first
\* /fetch-comments request and its finally block (first call, /login of the
\* re-authentication, retry) the fetch button is disabled, and a submission
\* only ever sends a request when no earlier submission is still in flight.
C18_OneFetchInFlight ==
  [][/\ fetchH'.pc # "idle" => btnDisabled'["fetchBtn"]
     /\ (Step("handleFetchComments") /\ last'.out = "sent") =>
          /\ fetchH.pc = "idle"
          /\ fetchH'.fetchCalls = 1]_vars

\* C18 witness: a re-authentication is pending for a fetch submitted before a
\* logout and a new login; the fetch form is shown again and is disabled
C18_Witness ==
  /\ fetchH.pc = "reauth"
  /\ last.op = "handleLoginSettled"
  /\ last.resp = "ok"
  /\ screen = "pasteLink"
  /\ btnDisabled["fetchBtn"]

\* C15: handleRunAgain sets numWinners and minComments to 1, empties users,
\* the total, winners and the winners list, clears the url and settings error
\* texts and shows the paste-link screen; sessionId and localStorage stay as
\* they were and no handler gets a call in flight.
C15_RunAgainResets ==
  [][Step("handleRunAgain") =>
       /\ numWinners' = 1
       /\ minComments' = 1
       /\ users' = <<>>
       /\ totalComments' = 0
       /\ winners' = <<>>
       /\ winnersList' = <<>>
       /\ urlError' = ""
       /\ settingsError' = ""
       /\ screen' = "pasteLink"
       /\ UNCHANGED <<sessionId, localStorage, handlers>>]_vars

\* C15 witness: "run again" was clicked with a session and a persisted
\* identity in place
C15_Witness ==
  /\ last.op = "handleRunAgain"
  /\ screen = "pasteLink"
  /\ users = <<>>
  /\ sessionId \in Handles
  /\ getSavedSessionId(localStorage) = sessionId
  /\ getSavedCookie(localStorage) \in Cookies

\* the positions of handleRunGiveaway inside runSearchingAnimation
Animating == {"countdown", "settle", "reveal"}

\* C17: /pick-winners is sent only from the settings screen with the users of
\* a successful /fetch-comments stored; the first countdown starts only in the
\* block that received and stored the winners; and every phase of the
\* animation, and the results list after it, shows the winners that response
\* returned.
C17_FetchThenPickThenReveal ==
  [][/\ (Step("handleRunGiveaway") /\ runH'.pc = "pick") =>
          /\ \E d \in FetchData : users = d.users /\ totalComments = d.total_comments
          /\ runH.pc = "idle"
          /\ screen' = "settings"
     /\ (runH.pc \notin Animating /\ runH'.pc \in Animating) =>
          /\ Step("handlePickSettled")
          /\ last'.resp = "ok"
          /\ runH.pc = "pick"
          /\ winners' \in WinnerLists
          /\ runH'.winners = winners'
          /\ runH'.phases = <<"countdown">>
     /\ runH.pc \in Animating => runH.winners = winners
     /\ (Step("revealDone") /\ last'.out = "results") =>
          /\ winnersList' = runH.winners
          /\ Len(runH.phases) = 2 * Len(runH.winners)]_vars

\* C17 witness: the second winner of a run is being revealed
C17_Witness ==
  /\ runH.pc = "reveal"
  /\ runH.i = 1
  /\ runH.winners = winners
  /\ Len(winners) = 2
  /\ users # <<>>
  /\ screen = "searching"

\* C19: each of the three buttons is disabled exactly while a call of its
\* handler is in flight: disabled from the request on, enabled again when
\* the handler ends, whatever the outcome.
C19_ButtonsFollowHandlers ==
  /\ btnDisabled["loginBtn"] <=> loginH.pc # "idle"
  /\ btnDisabled["fetchBtn"] <=> fetchH.pc # "idle"
  /\ btnDisabled["runGiveawayBtn"] <=> runH.pc # "idle"

\* C19 witness: a fetch ended by a redirect to the login screen, with its
\* button enabled again
C19_Witness ==
  /\ last.op = "handleReauthSettled"
  /\ last.out = "redirected"
  /\ screen = "login"
  /\ fetchH.pc = "idle"
  /\ ~btnDisabled["fetchBtn"]

\* C20: when /pick-winners does not yield a winners array (error response,
\* network failure, a body without winners) the handler ends with the
\* settings screen shown as before, never the searching screen, an error text
\* on the settings screen, and numWinners, minComments and users unchanged.
C20_FailedRunBackToSettings ==
  [][(Step("handlePickSettled") /\ last'.out # "searching") =>
       /\ screen' # "searching"
       /\ screen = "settings" => screen' = "settings"
       /\ settingsError' # ""
       /\ runH'.pc = "idle"
       /\ UNCHANGED <<numWinners, minComments, users>>]_vars

\* C21: when the first /fetch-comments call fails with anything but a 401,
\* numWinners, minComments, users, the total, sessionId and localStorage stay
\* as they were, the screen does not change, the handler ends without a
\* /login call or a retry, and the fetch form shows the detail of the error
\* response, or "Request failed (HTTP <status>)" when it has none, or the
\* message of the failed request.
C21_FetchFailureChangesNothing ==
  [][(Step("handleFetchSettled") /\ last'.resp = "other") =>
       /\ UNCHANGED <<appState, sessionId, localStorage, screen, loginError>>
       /\ fetchH'.pc = "idle"
       /\ fetchH.fetchCalls = 1
       /\ fetchH.loginCalls = 0
       /\ last'.out = "not_session_error"
       /\ urlError' = IF last'.detail # "" THEN last'.detail
                      ELSE IF last'.status # 0 THEN RequestFailed(last'.status)
                      ELSE "Failed to fetch"]_vars

\* C21 witness: a 500 with a detail text reached the fetch form while a
\* session and its persisted identity were in place
C21_Witness ==
  /\ last.op = "handleFetchSettled"
  /\ last.status = 500
  /\ last.detail # ""
  /\ urlError = last.detail
  /\ screen = "pasteLink"
  /\ sessionId \in Handles
  /\ getSavedCookie(localStorage) \in Cookies

\* a sequence of phases that starts with a countdown and alternates
Alternating(p) ==
  \A k \in 1..Len(p) : p[k] = IF k % 2 = 1 THEN "countdown" ELSE "reveal"

\* C22: the phases of one animation alternate countdown, reveal, countdown,
\* reveal; a phase begins only when the one before it has ended (the first
\* countdown with the winners' arrival, a reveal at the end of the settle
\* pause of its countdown, a later countdown at the end of the reveal before
\* it); and when the results are shown a list of N winners has had exactly N
\* countdowns and N reveals, the last phase being a reveal.
C22_PhasesAlternate ==
  [][/\ Alternating(runH'.phases)
     /\ runH'.pc \in Animating =>
          Len(runH'.phases) = 2 * runH'.i + (IF runH'.pc = "reveal" THEN 2 ELSE 1)
     /\ Len(runH'.phases) > Len(runH.phases) =>
          /\ Len(runH'.phases) = Len(runH.phases) + 1
          /\ runH.pc = (IF Len(runH.phases) = 0 THEN "pick"
                        ELSE IF runH.phases[Len(runH.phases)] = "countdown"
                          THEN "settle" ELSE "reveal")
     /\ (Step("revealDone") /\ last'.out = "results") =>
          /\ Len(runH.phases) = 2 * Len(runH.winners)
          /\ runH.phases[Len(runH.phases)] = "reveal"
          /\ Alternating(runH.phases)]_vars

\* C22 witness: the second countdown of a two-winner animation is running
C22_Witness ==
  /\ runH.pc = "countdown"
  /\ runH.phases = <<"countdown", "reveal", "countdown">>
  /\ Len(runH.winners) = 2

\* C24: the k-th reveal phase shows the k-th handle of the list the
\* selection returned, the list does not change while it is animated, and
\* the results list then holds the same handles in the same order.
C24_RevealInListOrder ==
  [][/\ Step("countdownSettled") =>
          /\ Len(runH'.revealed) = runH.i + 1
          /\ \A k \in 1..(runH.i + 1) : runH'.revealed[k] = runH.winners[k]
     /\ (runH.pc \in Animating /\ runH'.pc \in Animating) =>
          /\ runH'.winners = runH.winners
          /\ winners' = runH.winners
     /\ (Step("revealDone") /\ last'.out = "results") =>
          /\ runH.revealed = runH.winners
          /\ winnersList' = runH.winners]_vars

\* C24 witness: the results list after two different winners were revealed
C24_Witness ==
  /\ last.op = "revealDone" /\ last.out = "results"
  /\ winnersList = <<"alice", "bob">>
  /\ screen = "results"

\* C25: a countdown starts at COUNTDOWN_SECONDS with an empty arc; every
\* tick takes one second off and puts one step on the arc, whose progress
\* is (COUNTDOWN_SECONDS - remaining) / COUNTDOWN_SECONDS; remaining never
\* goes below zero; the tick that reaches zero is the COUNTDOWN_SECONDS-th
\* and stops the timer; and a reveal phase begins only by the end of the
\* settle pause that follows that tick.
C25_CountdownTicks ==
  [][/\ (runH'.pc = "countdown" /\ ~Step("countdownTick")
                                /\ runH' # runH) =>
          /\ runH'.remaining = COUNTDOWN_SECONDS
          /\ runH'.progress = 0
          /\ runH'.ticks = 0
     /\ Step("countdownTick") =>
          /\ runH.pc = "countdown"
          /\ runH'.remaining = runH.remaining - 1
          /\ runH'.remaining >= 0
          /\ runH'.progress = runH.progress + 1
          /\ runH'.progress = COUNTDOWN_SECONDS - runH'.remaining
          /\ runH'.ticks = runH.ticks + 1
          /\ runH'.ticks + runH'.remaining = COUNTDOWN_SECONDS
          /\ (runH'.pc = "settle") = (runH'.remaining = 0)
          /\ runH'.pc \in {"countdown", "settle"}
     /\ runH.pc = "settle" =>
          /\ runH.remaining = 0
          /\ runH.progress = COUNTDOWN_SECONDS
          /\ runH.ticks = COUNTDOWN_SECONDS
          /\ ~Step("countdownTick")
     /\ (runH'.pc = "reveal" /\ runH.pc # "reveal") =>
          /\ runH.pc = "settle"
          /\ Step("countdownSettled")]_vars

\* C25 witness: the settle pause after the fifth tick
C25_Witness ==
  /\ runH.pc = "settle" /\ last.op = "countdownTick"
  /\ runH.remaining = 0 /\ runH.ticks = COUNTDOWN_SECONDS

\* C23: while an animation runs its pool is a permutation of the catalog,
\* the k-th winner revealed was shown pool[(k-1) mod poolSize] (indices
\* from 0), and two winners were shown the same message exactly when their
\* positions differ by a multiple of the catalog size: no repeats up to
\* the catalog size, cyclic repeats beyond it.
C23_MessagesCycle ==
  runH.pc \in Animating =>
    LET poolSize == Len(CONGRATS_MESSAGES) IN
    /\ Len(runH.pool) = poolSize
    /\ \A m \in 1..poolSize : \E k \in 1..poolSize :
          runH.pool[k] = CONGRATS_MESSAGES[m]
    /\ Len(runH.messages) = Len(runH.revealed)
    /\ \A a \in 1..Len(runH.messages) :
          runH.messages[a] = runH.pool[((a - 1) % poolSize) + 1]
    /\ \A a, b \in 1..Len(runH.messages) :
          a <= b => ((runH.messages[a] = runH.messages[b])
                       = ((b - a) % poolSize = 0))

\* C23 witness: the eleventh winner of a shuffled pool is shown the message
\* of the first, after ten different ones
C23_Witness ==
  /\ runH.pc = "reveal"
  /\ Len(runH.messages) = Len(CONGRATS_MESSAGES) + 1
  /\ runH.messages[Len(CONGRATS_MESSAGES) + 1] = runH.messages[1]
  /\ runH.pool # CONGRATS_MESSAGES

\* the winners of a selection have arrived and their animation has begun
SelectionSucceeded ==
  last.op = "handlePickSettled" /\ last.out = "searching"

\* the results screen has just been entered
ResultsEntered ==
  last.op = "revealDone" /\ last.out = "results" /\ screen = "results"

\* C26: the results screen is entered only by the end of the hold time of
\* the last winner's reveal, when every winner has been revealed; that
\* ends the animation, and a new one starts only with the winners of
\* another selection, so the results are entered at most once per
\* selection; and with timers that fire, every selection whose winners
\* arrived is followed by the results being entered.
C26_ResultsOncePerSelection ==
  /\ [][/\ (screen' = "results" /\ screen # "results") =>
               /\ Step("revealDone")
               /\ runH.pc = "reveal"
               /\ runH.i + 1 = Len(runH.winners)
               /\ runH.revealed = runH.winners
               /\ runH'.pc = "idle"
        /\ (runH.pc \notin Animating /\ runH'.pc \in Animating) =>
               /\ Step("handlePickSettled")
               /\ last'.resp = "ok"]_vars
  /\ (SelectionSucceeded ~> ResultsEntered)

\* C26 witness: the results of two winners, entered after a selection
C26_Witness ==
  /\ ResultsEntered
  /\ Len(winnersList) = 2
  /\ runH.pc = "idle"

SequencerOps == {"countdownTick", "countdownSettled", "revealDone"}

\* C28: every /pick-winners response that resolves starts the animation on
\* a winners array with at least one handle, no outcome of the response is
\* an error of the animation, and the animation's blocks send nothing.
C28_SequencerOnlyOnWinners ==
  [][/\ (Step("handlePickSettled") /\ last'.resp = "ok") =>
          /\ last'.out = "searching"
          /\ runH'.pc \in Animating
          /\ runH'.winners # undefined
          /\ Len(runH'.winners) >= 1
          /\ settingsError' = ""
     /\ last'.op \in SequencerOps =>
          UNCHANGED <<initH, loginH, fetchH, logoutH, settingsError>>]_vars

\* the comments arrived and the settings screen is entered
SettingsEntered ==
  /\ last'.op \in {"handleFetchSettled", "handleRetrySettled"}
  /\ last'.out = "settings"

\* C29: the settings are {1, 1} whenever the settings screen is entered
\* with fetched comments, and they change only by an option click, to a
\* value of 1..5, or back to {1, 1} by "run again" or a page load.
C29_SettingsDefaultAtRunStart ==
  [][/\ SettingsEntered => (numWinners' = 1 /\ minComments' = 1)
     /\ <<numWinners, minComments>>' # <<numWinners, minComments>> =>
          \/ /\ Step("handleOptionClick")
             /\ numWinners' \in 1..5 /\ minComments' \in 1..5
          \/ /\ last'.op \in {"handleRunAgain", "load"}
             /\ numWinners' = 1 /\ minComments' = 1]_vars

\* the blocks of the run controller after the comments are fetched
RunControllerOps ==
  {"handleOptionClick", "handleRunGiveaway", "handlePickSettled",
   "handleShare", "handleRunAgain"} \cup SequencerOps

\* the steps that may write the session handle or the persisted values:
\* page load and startup restore, login, logout, re-authentication and the
\* redirect to the login screen
SessionManagerStep ==
  \/ last'.op \in {"load", "initStart", "initValidateSettled", "initLoginSettled",
                    "handleLoginSettled", "handleLogout", "handleLogoutSettled",
                    "handleReauthSettled"}
  \/ /\ last'.op \in {"handleFetchSettled", "handleRetrySettled"}
     /\ last'.out = "redirected"

\* C30: option clicks, run giveaway and its response (success or failure),
\* the reveal sequencer, the results, share and run again leave the session
\* handle and the two persisted values as they are; every step that
\* changes one of them is a step of the session manager.
C30_IdentityOnlyBySessionManager ==
  [][/\ last'.op \in RunControllerOps => UNCHANGED <<sessionId, localStorage>>
     /\ <<sessionId, localStorage>>' # <<sessionId, localStorage>> =>
          SessionManagerStep]_vars

\* C30 witness: a giveaway refused as unauthorized leaves the session and
\* both persisted values in place
C30_Witness ==
  /\ last.op = "handlePickSettled" /\ last.status = 401
  /\ sessionId \in Handles
  /\ getSavedCookie(localStorage) \in Cookies
  /\ getSavedSessionId(localStorage) = sessionId

\* a selection request or a timer of the animation is pending
RunPending == runH.pc \in Animating \cup {"pick"}

\* C31: "run again" happens only on the results screen and only when no
\* request or timer of a run is pending; and while a countdown or reveal
\* timer is pending no handler step (a page load apart) clears the winners
\* or the fetched comments.
C31_RunAgainOnlyAfterResults ==
  [][/\ Step("handleRunAgain") =>
          /\ screen = "results"
          /\ ~RunPending
          /\ runH' = RunH0
     /\ (runH.pc \in Animating /\ ~Step("load")) =>
          /\ winners' = winners
          /\ users' # <<>>]_vars

\* C31 witness: "run again" after the results of a run, the session kept
C31_Witness ==
  /\ last.op = "handleRunAgain"
  /\ screen = "pasteLink" /\ users = <<>> /\ winners = <<>>
  /\ runH.pc = "idle"
  /\ sessionId \in Handles

\* C32: when the re-authentication succeeds, the retried /fetch-comments is
\* sent at once with the session id that this /login response issued, which
\* is then the current one and the persisted one; when that id differs from
\* the rejected one, the retry does not carry the rejected one.
C32_RetryCarriesNewHandle ==
  [][(Step("handleReauthSettled") /\ last'.out = "reauthenticated") =>
       /\ fetchH'.pc = "retry"
       /\ fetchH'.url = fetchH.url
       /\ fetchH'.sentSessionId = last'.sid
       /\ sessionId' = last'.sid
       /\ getSavedSessionId(localStorage') = last'.sid
       /\ last'.sid # fetchH.sentSessionId =>
            fetchH'.sentSessionId # fetchH.sentSessionId]_vars

\* C32 witness: a retry in flight with the newly issued handle
C32_Witness ==
  /\ last.op = "handleReauthSettled" /\ last.out = "reauthenticated"
  /\ fetchH.pc = "retry" /\ fetchH.fetchCalls = 2
  /\ fetchH.sentSessionId = "h2" /\ sessionId = "h2"
  /\ getSavedSessionId(localStorage) = "h2"

\* init() returns with this step
InitReturns == initH.pc # "done" /\ initH'.pc = "done"

\* C33: a startup restore sends at most one /validate-session and then at
\* most one /login: the validation exactly when a session id is persisted,
\* the login exactly when a cookie is persisted and no validation
\* succeeded; when init() returns one screen is active, the paste-link
\* screen if a session id was adopted as current and the login screen
\* otherwise; a failed validation without a persisted cookie drops the
\* persisted session id and shows the login screen without a /login call.
C33_RestoreCallsBounded ==
  [][/\ initH'.validateCalls <= 1 /\ initH'.loginCalls <= 1
     /\ Step("initStart") =>
          /\ (initH'.validateCalls = 1) = (getSavedSessionId(localStorage) # Null)
          /\ (initH'.pc = "validate") = (getSavedSessionId(localStorage) # Null)
          /\ (initH'.loginCalls = 1) =
               (/\ getSavedSessionId(localStorage) = Null
                /\ getSavedCookie(localStorage) # Null)
     /\ Step("initValidateSettled") =>
          /\ initH.validateCalls = 1 /\ initH.loginCalls = 0
          /\ initH'.validateCalls = 1
          /\ IF last'.resp = "ok"
               THEN /\ initH'.loginCalls = 0
                    /\ initH'.pc = "done"
                    /\ sessionId' # Null
               ELSE /\ getSavedSessionId(localStorage') = Null
                    /\ IF initH.savedCookie # Null
                         THEN initH'.pc = "login" /\ initH'.loginCalls = 1
                         ELSE /\ initH'.pc = "done" /\ initH'.loginCalls = 0
                              /\ screen' = "login"
                              /\ sessionId' = Null
     /\ Step("initLoginSettled") =>
          /\ initH.loginCalls = 1 /\ initH'.loginCalls = 1
          /\ initH'.pc = "done"
     /\ initH.pc # "done" => screen = Loading
     /\ InitReturns =>
          /\ screen' \in {"pasteLink", "login"}
          /\ (screen' = "pasteLink") = (sessionId' # Null)]_vars

\* C33 witness: the validation failed and nothing else was persisted, so the
\* login screen is shown after one call
C33_Witness ==
  /\ last.op = "initValidateSettled" /\ last.resp # "ok"
  /\ initH.pc = "done" /\ initH.validateCalls = 1 /\ initH.loginCalls = 0
  /\ screen = "login"
  /\ getSavedSessionId(localStorage) = Null

\* the handleFetchComments call has just returned, in one of its three ways:
\* the settings screen with the comments, an error on the fetch form, or
\* the login screen without a session
FetchEnded ==
  /\ fetchH.pc = "idle"
  /\ last.op \in {"handleFetchSettled", "handleReauthSettled", "handleRetrySettled"}
  /\ \/ last.out = "settings" /\ screen = "settings"
     \/ last.out \in {"not_session_error", "error"} /\ urlError # ""
     \/ last.out = "redirected" /\ screen = "login" /\ sessionId = Null

\* C34: with timers that fire and requests that are answered, the winners of
\* a selection are followed by the results screen, a submitted fetch is
\* followed by the return of its handler in one of its three ways, and a
\* pending startup restore, login, selection or animation does not stay
\* pending.
C34_HandlersFinish ==
  /\ SelectionSucceeded ~> ResultsEntered
  /\ (fetchH.pc # "idle") ~> FetchEnded
  /\ (initH.pc # "done") ~> (initH.pc = "done")
  /\ (loginH.pc # "idle") ~> (loginH.pc = "idle")
  /\ (runH.pc # "idle") ~> (runH.pc = "idle")

\* C34 witness: a fetch that was retried after a re-authentication has ended
\* on the settings screen
C34_Witness ==
  /\ FetchEnded
  /\ last.op = "handleRetrySettled" /\ last.out = "settings"


\* C35: between handler steps, a non-null in-memory session handle is also
\* the persisted one: memory and storage never hold two different handles
C35_MemoryHandleIsPersisted ==
  sessionId # Null => getSavedSessionId(localStorage) = sessionId

\* a login has just stored its handle in memory and in storage
C35_Witness ==
  /\ last.op = "handleLoginSettled"
  /\ sessionId # Null
  /\ getSavedSessionId(localStorage) = sessionId


\* a persisted session id is accompanied by a persisted cookie
HandleHasCredential ==
  getSavedSessionId(localStorage) # Null => getSavedCookie(localStorage) # Null

\* C36: from storage in which a persisted session id is accompanied by a
\* persisted cookie, every step keeps that relation: no step persists a
\* session id while no cookie is persisted, however logout interleaves with
\* a pending re-authentication or login.
C36_HandleNeverWithoutCredential ==
  [][HandleHasCredential => HandleHasCredential']_vars


\* C37: once init has returned, the paste-link, settings, searching and
\* results screens are shown only with a session id in memory; a response
\* that arrives after a logout or a redirect to login leaves the login
\* screen in place.
C37_AppScreensNeedSession ==
  (initH.pc = "done" /\ screen \in {"pasteLink", "settings", "searching", "results"})
    => sessionId # Null


\* the state a completed logout leaves, with the login form not submitted
LoggedOut ==
  /\ sessionId = Null
  /\ getSavedSessionId(localStorage) = Null
  /\ getSavedCookie(localStorage) = Null
  /\ screen = "login"
  /\ initH.pc = "done"
  /\ loginH.pc = "idle"

\* C38: after a logout has completed and until the login form is submitted,
\* every step leaves both the in-memory and the persisted session id absent;
\* a re-authentication or fetch started before the logout that settles after
\* it sets or persists none.
C38_LoggedOutUntilLogin ==
  [][(LoggedOut /\ ~Step("handleLogin")) =>
       /\ sessionId' = Null
       /\ getSavedSessionId(localStorage') = Null]_vars


\* C39: at most one selection request or reveal sequence is active: the
\* run button is disabled from the click until the handler ends, a run
\* starts only when none is pending, a countdown starts only when none is
\* running, and while a reveal sequence is in progress no step (a page load
\* apart) changes the winners, numWinners or minComments.
C39_OneRunNothingChanges ==
  [][/\ RunPending => btnDisabled["runGiveawayBtn"]
     /\ Step("handleRunGiveaway") => ~RunPending
     /\ (runH'.pc = "countdown" /\ runH.pc = "countdown") =>
          Step("countdownTick") \/ runH' = runH
     /\ (runH.pc \in Animating /\ ~Step("load")) =>
          /\ winners' = winners
          /\ numWinners' = numWinners
          /\ minComments' = minComments]_vars


\* C40: in the variant without persistence, a /fetch-comments call answered
\* 401 ends the handler with sessionId null, the login screen shown with the
\* session-expired message, no /login call and no second /fetch-comments
\* call; any other failure leaves sessionId and the screen as they were and
\* shows the error's message on the fetch form; in both cases the fetch
\* button is enabled again.
C40_VariantExpiryRedirects ==
  [][(fetchH.pc = "fetch" /\ Step("handleFetchSettled") /\ last'.resp # "ok") =>
       /\ fetchH' = FetchH0
       /\ loginH' = loginH
       /\ ~btnDisabled'["fetchBtn"]
       /\ IF last'.resp = "unauthorized"
            THEN /\ sessionId' = Null
                 /\ screen' = "login"
                 /\ loginError' = "Session expired, please log in again."
                 /\ urlError' = urlError
            ELSE /\ sessionId' = sessionId
                 /\ screen' = screen
                 /\ urlError' \in ApiMessages
                 /\ loginError' = loginError]_vars

\* C40 witness: a 401 on the fetch has sent a logged-in user to the login
\* screen
C40_Witness ==
  /\ last.op = "handleFetchSettled"
  /\ last.resp = "unauthorized"
  /\ sessionId = Null
  /\ screen = "login"
  /\ loginError = "Session expired, please log in again."
  /\ ~btnDisabled["fetchBtn"]

====
